---- MODULE Spec2Model ----
(***************************************************************************)
(* A model of zbus' client-side proxy (zbus/src/proxy.rs): the property     *)
(* cache kept coherent by PropertiesChanged, the SignalStream filter with   *)
(* its name-owner tracking, and the life cycle of match rules and signal    *)
(* handlers.                                                                *)
(***************************************************************************)
EXTENDS Integers, Sequences, FiniteSets, TLC

\* ------------------------------------------------------------------------
\* Bounds of the model
\* ------------------------------------------------------------------------
MaxVal == 2
MaxInval == 2
MaxEmit == 2
MaxInbox == 1
MaxHandlers == 2
MaxDeliver == 3
MaxChan == 1
MaxCallers == 2
MaxDisconnects == 3
MaxClones == 2
MaxRegs == 3
MaxPStreams == 2
MaxGets == 1
MaxSets == 1

\* ------------------------------------------------------------------------
\* Values of the property cache
\* ------------------------------------------------------------------------
\* Option<T>: None is the empty sequence, Some(v) the sequence of v alone
None == <<>>
Some(v) == <<v>>
Props == {"a", "b"}
Values == 1..MaxVal
ProxyInterface == "org.example.Iface"
OtherInterface == "org.example.Other"

VARIABLES
    values,       \* ProxyProperties.values: the cache, property name -> PropertyValue
    task,         \* ProxyProperties.task is set (has_cached_properties)
    cpPc,         \* position of cache_properties
    getAllReply,  \* the reply to GetAll held by cache_properties
    seedTodo,     \* names of the GetAll reply not yet passed to set_cached_property
    busVal,       \* the remote object's property values
    inbox,        \* PropertiesChanged signals delivered, not yet dispatched to the handler
    hPc,          \* position of the PropertiesChanged handler of cache_properties
    invoked,      \* callback invocations made by the dispatch in progress / last dispatch
    nextH,        \* number of handlers registered so far
    issued,       \* PropertyChangedHandlerIds returned to the application
    emitted,      \* number of PropertiesChanged emissions so far
    seeded,       \* set_cached_property has stored a GetAll value
    applied,      \* history: what the dispatched messages say about each property
    lateVal       \* history: what the messages emitted after the GetAll answer say

cacheVars == <<values, task, cpPc, getAllReply, seedTodo, busVal, inbox, hPc,
               invoked, nextH, issued, emitted, seeded, applied, lateVal>>

VARIABLES
    proxy,            \* ProxyInner: destination, path, interface
    sState,           \* the SignalStream: "none", "open", "ended"
    sMember,          \* SignalStream.member
    src_bus_name,     \* SignalStream.src_bus_name
    src_query,        \* SignalStream.src_query
    src_unique_name,  \* SignalStream.src_unique_name
    chan,             \* SignalStream.stream: messages received, not yet polled
    closed,           \* the connection's broadcast channel is closed
    delivered,        \* number of messages delivered to the receiver
    yieldedIds,       \* the messages poll_next returned, by delivery number
    expectIds,        \* history: the messages that matched when processed
    early,            \* history: matching signals dropped while GetNameOwner was pending
    replyOwner        \* history: the owner stored from the GetNameOwner reply

streamVars == <<proxy, sState, sMember, src_bus_name, src_query, src_unique_name, chan,
                closed, delivered, yieldedIds, expectIds, early, replyOwner>>

VARIABLES
    isBus,            \* Connection::is_bus
    watcher,          \* ProxyInnerStatic.dest_name_watcher
    matchAdds,        \* per match expression: add_match calls that returned Ok
    matchRemoves,     \* per match expression: remove_match / queue_remove_match calls
    ops,              \* the receive_signals / connect_signal calls and their positions
    streams,          \* per call: the SignalStream it returned ("none", "live", "dropped")
    sig_handlers,     \* ProxyInnerStatic.sig_handlers
    connHandlers,     \* the signal handlers registered on the connection
    nextId,           \* number of SignalHandlerKeys handed out by the connection
    queuedRemovals,   \* handler ids passed to queue_remove_signal_handler
    discResults,      \* per handler id: the results of the disconnect_signal calls
    proxyDropped      \* the last clone of the proxy has been dropped

lifeVars == <<isBus, watcher, matchAdds, matchRemoves, ops, streams, sig_handlers,
              connHandlers, nextId, queuedRemovals, discResults, proxyDropped>>

VARIABLES
    pstreams,         \* the PropertyStreams created: [name, type]
    pLast,            \* per PropertyStream: the item of its last yield, if any
    pBase,            \* history: per PropertyStream, the cached value at its last listen()
    pPolls,           \* per PropertyStream: the number of items it has yielded
    getCalls,         \* number of Properties.Get calls issued
    setCalls,         \* number of Properties.Set calls issued
    gp,               \* the get_property call in progress and its position
    sp,               \* the set_property call in progress and its position
    callResult,       \* the last call of the property API and what it returned
    hLive,            \* history: handler ids registered and not yet disconnected
    hKinds,           \* per property-change callback: where it re-enters the proxy
    cacheLock,        \* ProxyProperties.values (the SyncMutex): "free", "stuck", "poisoned"
    reentered         \* history: callbacks whose re-entrant call has completed

propVars == <<pstreams, pLast, pBase, pPolls, getCalls, setCalls, gp, sp, callResult,
              hLive, hKinds, cacheLock, reentered>>

VARIABLES
    clones,           \* number of live clones of the Proxy
    taskOnConn,       \* the connection holds the PropertiesChanged closure of cache_properties
    propsStrong,      \* strong count of Arc<ProxyProperties>
    taskQueued,       \* the PropertiesChanged handler was passed to queue_remove_signal_handler
    connMember,       \* per SignalHandlerKey handed out by the connection: the handler's member
    sigCalls          \* the last signal emission and the handlers the connection invoked

ownVars == <<clones, taskOnConn, propsStrong, taskQueued, connMember, sigCalls>>

vars == <<cacheVars, streamVars, lifeVars, propVars, ownVars>>

\* ------------------------------------------------------------------------
\* Names on the bus and the proxies of the model
\* ------------------------------------------------------------------------
U1 == ":1.1"
U2 == ":1.2"
Driver == "org.freedesktop.DBus"
DriverPath == "/org/freedesktop/DBus"
DriverInterface == "org.freedesktop.DBus"
NameOwnerChanged == "NameOwnerChanged"
FooName == "org.example.Foo"
ObjPath == "/org/example/Obj"

\* BusName::WellKnown / BusName::Unique
WellKnown(n) == [kind |-> "wellknown", name |-> n]
Unique(n) == [kind |-> "unique", name |-> n]

ProxyConfigs ==
    { [destination |-> WellKnown(FooName), path |-> ObjPath, interface |-> ProxyInterface],
      [destination |-> Unique(U1), path |-> ObjPath, interface |-> ProxyInterface],
      \* fdo::DBusProxy, as in tests::test_signal_stream
      [destination |-> WellKnown(Driver), path |-> DriverPath,
       interface |-> DriverInterface] }

\* the match expressions the proxy registers
\* (the NameOwnerChanged rule of destination_unique_name, and the rule of
\* receive_signals with its optional member)
TrackerExpr == <<"NameOwnerChanged,arg0=destination", None>>
StreamExpr(member) == <<"signal,sender,path,interface", member>>
LifeMembers == {None, Some("Sig")}
\* the members connect_signal is called with
ConnectMembers == {Some("Sig"), Some("Other")}
Exprs == {TrackerExpr} \cup {StreamExpr(m) : m \in LifeMembers}

Callers == 1..MaxCallers
HandlerIds == 1..MaxCallers

IdleCall == [pc |-> "idle", op |-> "none", member |-> None]

\* no call of the property API is in progress
NoCall == [pc |-> "idle", name |-> "", type |-> "", value |-> None]
NoResult == [op |-> "none", tick |-> FALSE]

\* no PropertyStream, no get_property / set_property, no callback kinds
PropIdle ==
    /\ pstreams = <<>>
    /\ pLast = <<>>
    /\ pBase = <<>>
    /\ pPolls = <<>>
    /\ getCalls = 0
    /\ setCalls = 0
    /\ gp = NoCall
    /\ sp = NoCall
    /\ callResult = NoResult
    /\ hLive = {}
    /\ hKinds = <<>>
    /\ cacheLock = "free"
    /\ reentered = {}

\* one clone of a proxy built without cache, no signal emitted
NoEmission == [member |-> "", ids |-> <<>>]

OwnIdle ==
    /\ clones = 1
    /\ taskOnConn = FALSE
    /\ propsStrong = 1
    /\ taskQueued = FALSE
    /\ connMember = <<>>
    /\ sigCalls = NoEmission

\* a proxy on which no signal operation has been started
LifeIdle ==
    /\ isBus = TRUE
    /\ watcher = None
    /\ matchAdds = [e \in Exprs |-> 0]
    /\ matchRemoves = [e \in Exprs |-> 0]
    /\ ops = [c \in Callers |-> IdleCall]
    /\ streams = [c \in Callers |-> "none"]
    /\ sig_handlers = <<>>
    /\ connHandlers = {}
    /\ nextId = 0
    /\ queuedRemovals = <<>>
    /\ discResults = [id \in HandlerIds |-> <<>>]
    /\ proxyDropped = FALSE
    /\ OwnIdle

\* no SignalStream exists
StreamIdle ==
    /\ proxy \in {p \in ProxyConfigs : p.destination = WellKnown(FooName)}
    /\ sState = "none"
    /\ sMember = None
    /\ src_bus_name = None
    /\ src_query = None
    /\ src_unique_name = None
    /\ chan = <<>>
    /\ closed = FALSE
    /\ delivered = 0
    /\ yieldedIds = <<>>
    /\ expectIds = <<>>
    /\ early = {}
    /\ replyOwner = None

\* ------------------------------------------------------------------------
\* SlotMap<PropertyChangedHandlerKey, PropertyChangedHandler>
\* A slot is occupied when its version is odd; vacant slots form a free list
\* whose head is reused first; iteration is in slot order.
\* ------------------------------------------------------------------------
EmptySlotMap == [slots |-> <<>>, freeHead |-> 1]

Occupied(slot) == slot.version % 2 = 1

SlotMapInsert(sm, h) ==
    IF sm.freeHead <= Len(sm.slots)
    THEN LET idx == sm.freeHead
             old == sm.slots[idx]
         IN [map |-> [slots |-> [sm.slots EXCEPT ![idx] =
                                    [version |-> old.version + 1, h |-> h, nextFree |-> 0]],
                      freeHead |-> old.nextFree],
             key |-> [idx |-> idx, version |-> old.version + 1]]
    ELSE LET idx == Len(sm.slots) + 1
         IN [map |-> [slots |-> Append(sm.slots, [version |-> 1, h |-> h, nextFree |-> 0]),
                      freeHead |-> idx + 1],
             key |-> [idx |-> idx, version |-> 1]]

\* a lookup that ignores the version of the key
SlotMapContainsAnyVersion(sm, key) ==
    /\ key.idx <= Len(sm.slots)
    /\ Occupied(sm.slots[key.idx])

SlotMapContains(sm, key) ==
    /\ key.idx <= Len(sm.slots)
    /\ sm.slots[key.idx].version = key.version

SlotMapRemove(sm, key) ==
    IF SlotMapContains(sm, key)
    THEN [slots |-> [sm.slots EXCEPT ![key.idx] =
                        [version |-> key.version + 1, h |-> 0, nextFree |-> sm.freeHead]],
          freeHead |-> key.idx]
    ELSE sm

\* an iteration from the last slot to the first
RECURSIVE SlotMapValuesReversed(_)
SlotMapValuesReversed(slots) ==
    IF slots = <<>> THEN <<>>
    ELSE SlotMapValuesReversed(Tail(slots))
         \o (IF Occupied(Head(slots)) THEN <<Head(slots).h>> ELSE <<>>)

\* handlers.values_mut(): the handlers of the occupied slots, in slot order
RECURSIVE SlotMapValues(_)
SlotMapValues(slots) ==
    IF slots = <<>> THEN <<>>
    ELSE (IF Occupied(Head(slots)) THEN <<Head(slots).h>> ELSE <<>>)
         \o SlotMapValues(Tail(slots))

\* ------------------------------------------------------------------------
\* PropertyValue and the cache
\* ------------------------------------------------------------------------
\* `event` is the set of PropertyStreams whose listener on the entry's Event has not
\* been notified; event.notify(usize::MAX) notifies them all
DefaultPropertyValue ==
    [present |-> FALSE, value |-> None, handlers |-> None, event |-> {}]

\* values.entry(name).or_insert_with(PropertyValue::default)
EntryOrInsert(vals, name) ==
    IF vals[name].present THEN vals
    ELSE [vals EXCEPT ![name] = [DefaultPropertyValue EXCEPT !.present = TRUE]]

\* Proxy::cached_property
cached_property(name) ==
    IF values[name].present THEN values[name].value ELSE None

\* a closure that takes the PropertiesChanged of every interface
matches_every(iface) == TRUE

\* the closure given to connect_properties_changed: `iface == interface`
matches(iface) == iface = ProxyInterface

\* a proxy that always reports an active cache
AlwaysCached == TRUE

\* Proxy::has_cached_properties
has_cached_properties == task

\* a dispatch that stops after the first handler of an entry
HandlerCallsFirstOnly(entry, name, arg) ==
    IF entry.handlers = None THEN <<>>
    ELSE LET hs == SlotMapValues(entry.handlers[1].slots)
         IN [i \in 1..(IF Len(hs) > 0 THEN 1 ELSE 0) |->
                [name |-> name, h |-> hs[i], arg |-> arg]]

\* the calls `futures.push(handler(arg))` of one entry
HandlerCalls(entry, name, arg) ==
    IF entry.handlers = None THEN <<>>
    ELSE LET hs == SlotMapValues(entry.handlers[1].slots)
         IN [i \in 1..Len(hs) |-> [name |-> name, h |-> hs[i], arg |-> arg]]

\* a first loop that clears the values without notifying the entry's Event
RECURSIVE InvalidatedLoopSilent(_, _, _)
InvalidatedLoopSilent(vals, invalidated, futures) ==
    IF invalidated = <<>> THEN [vals |-> vals, futures |-> futures]
    ELSE LET k == Head(invalidated)
         IN IF vals[k].present
            THEN InvalidatedLoopSilent([vals EXCEPT ![k].value = None],
                                       Tail(invalidated),
                                       futures \o HandlerCalls(vals[k], k, None))
            ELSE InvalidatedLoopSilent(vals, Tail(invalidated), futures)

\* update_cache, first loop: `for inval in invalidated`
RECURSIVE InvalidatedLoop(_, _, _)
InvalidatedLoop(vals, invalidated, futures) ==
    IF invalidated = <<>> THEN [vals |-> vals, futures |-> futures]
    ELSE LET k == Head(invalidated)
         IN IF vals[k].present
            THEN InvalidatedLoop([vals EXCEPT ![k].value = None, ![k].event = {}],
                                 Tail(invalidated),
                                 futures \o HandlerCalls(vals[k], k, None))
            ELSE InvalidatedLoop(vals, Tail(invalidated), futures)

\* update_cache, second loop: `for (property_name, value) in changed`, the
\* HashMap being iterated in the order `order`
RECURSIVE ChangedLoop(_, _, _, _)
ChangedLoop(vals, changed, order, futures) ==
    IF order = <<>> THEN [vals |-> vals, futures |-> futures]
    ELSE LET k == Head(order)
             ins == EntryOrInsert(vals, k)
         IN ChangedLoop([ins EXCEPT ![k].value = Some(changed[k]), ![k].event = {}],
                        changed, Tail(order),
                        futures \o HandlerCalls(ins[k], k, Some(changed[k])))

\* an update_cache that applies the changed map before the invalidated list
update_cache_changed_first(vals, changed, invalidated, order) ==
    LET afterChanged == ChangedLoop(vals, changed, order, <<>>)
    IN InvalidatedLoop(afterChanged.vals, invalidated, afterChanged.futures)

\* ProxyProperties::update_cache
update_cache(vals, changed, invalidated, order) ==
    LET afterInval == InvalidatedLoop(vals, invalidated, <<>>)
    IN ChangedLoop(afterInval.vals, changed, order, afterInval.futures)

\* ------------------------------------------------------------------------
\* PropertiesChanged messages
\* ------------------------------------------------------------------------
ChangedMaps == UNION {[S -> Values] : S \in SUBSET Props}
InvalidatedLists == UNION {[1..n -> Props] : n \in 0..MaxInval}
\* the orders in which a HashMap with the keys S can be iterated
Orders(S) == {o \in UNION {[1..n -> S] : n \in {Cardinality(S)}} :
                 \A i, j \in DOMAIN o : i # j => o[i] # o[j]}

PropertiesChangedMsgs ==
    [iface : {ProxyInterface}, changed : ChangedMaps, invalidated : InvalidatedLists]
    \cup [iface : {OtherInterface}, changed : [Props -> {MaxVal}],
          invalidated : {<<>>, <<"a">>}]

Mentions(msg, k) ==
    \/ k \in DOMAIN msg.changed
    \/ \E i \in DOMAIN msg.invalidated : msg.invalidated[i] = k

Invalidates(msg, k) == \E i \in DOMAIN msg.invalidated : msg.invalidated[i] = k


\* what the messages dispatched so far say about a property: never mentioned,
\* last mentioned by a changed map only, by an invalidated list only, or by both
\* lists of one message
NeverMentioned == [kind |-> "never", value |-> None]

Mention(msg, k, before) ==
    IF k \in DOMAIN msg.changed
    THEN [kind |-> IF Invalidates(msg, k) THEN "both" ELSE "changed",
          value |-> Some(msg.changed[k])]
    ELSE IF Invalidates(msg, k) THEN [kind |-> "invalidated", value |-> None]
    ELSE before

\* ------------------------------------------------------------------------
\* The property cache: initial state
\* ------------------------------------------------------------------------
\* a proxy whose builder has not run cache_properties yet
CacheInit ==
    /\ values = [k \in Props |-> DefaultPropertyValue]
    /\ task = FALSE
    /\ cpPc = "start"
    /\ getAllReply = [ok |-> FALSE, values |-> <<>>]
    /\ seedTodo = {}
    /\ busVal = [k \in Props |-> 1]
    /\ inbox = <<>>
    /\ hPc = "idle"
    /\ invoked = <<>>
    /\ nextH = 0
    /\ issued = {}
    /\ emitted = 0
    /\ seeded = FALSE
    /\ applied = [k \in Props |-> NeverMentioned]
    /\ lateVal = [k \in Props |-> NeverMentioned]
    /\ StreamIdle
    /\ LifeIdle
    /\ PropIdle

\* ------------------------------------------------------------------------
\* Proxy::cache_properties
\* ------------------------------------------------------------------------
\* connect_properties_changed succeeds, the handler id is stored in
\* properties.task, and GetAll is sent
CachePropertiesConnect ==
    /\ cpPc = "start"
    /\ task' = TRUE
    /\ cpPc' = "getall"
    /\ UNCHANGED <<values, getAllReply, seedTodo, busVal, inbox, hPc, invoked, nextH,
                   issued, emitted, seeded, applied, lateVal>>
    /\ UNCHANGED <<streamVars, lifeVars, propVars, ownVars>>

\* the bus answers GetAll with the object's properties, or with an error
BusAnswerGetAll ==
    /\ cpPc = "getall"
    /\ \E ok \in BOOLEAN :
          /\ getAllReply' = [ok |-> ok, values |-> IF ok THEN busVal ELSE <<>>]
          /\ seedTodo' = IF ok THEN Props ELSE {}
    /\ cpPc' = "reply"
    /\ UNCHANGED <<values, task, busVal, inbox, hPc, invoked, nextH, issued,
                   emitted, seeded, applied, lateVal>>
    /\ UNCHANGED <<streamVars, lifeVars, propVars, ownVars>>

\* Proxy::set_cached_property
set_cached_property(vals, name, value) ==
    [EntryOrInsert(vals, name) EXCEPT ![name].value = value]

\* one iteration of `for (name, value) in values { self.set_cached_property(..) }`
CachePropertiesSeed ==
    /\ cpPc = "reply"
    /\ \E name \in seedTodo :
          /\ values' = set_cached_property(values, name, Some(getAllReply.values[name]))
          /\ seedTodo' = seedTodo \ {name}
    /\ seeded' = TRUE
    /\ UNCHANGED <<task, cpPc, getAllReply, busVal, inbox, hPc, invoked, nextH, issued,
                   emitted, applied, lateVal>>
    /\ UNCHANGED <<streamVars, lifeVars, propVars, ownVars>>

\* cache_properties returns Ok(())
CachePropertiesReturn ==
    /\ cpPc = "reply"
    /\ seedTodo = {}
    /\ cpPc' = "done"
    /\ UNCHANGED <<values, task, getAllReply, seedTodo, busVal, inbox, hPc, invoked,
                   nextH, issued, emitted, seeded, applied, lateVal>>
    /\ UNCHANGED <<streamVars, lifeVars, propVars, ownVars>>

\* ------------------------------------------------------------------------
\* The remote object and the PropertiesChanged handler
\* ------------------------------------------------------------------------
\* the object changes properties and emits PropertiesChanged; the signal reaches
\* this connection once the handler (and its match rule) is installed
BusEmit ==
    /\ emitted < MaxEmit
    /\ Len(inbox) < MaxInbox
    /\ \E msg \in PropertiesChangedMsgs :
          /\ busVal' = IF msg.iface = ProxyInterface
                       THEN [k \in Props |-> IF k \in DOMAIN msg.changed
                                             THEN msg.changed[k] ELSE busVal[k]]
                       ELSE busVal
          /\ inbox' = IF task THEN Append(inbox, msg) ELSE inbox
          /\ lateVal' = IF cpPc \in {"reply", "done"} /\ msg.iface = ProxyInterface
                        THEN [k \in Props |-> Mention(msg, k, lateVal[k])]
                        ELSE lateVal
    /\ emitted' = emitted + 1
    /\ UNCHANGED <<values, task, cpPc, getAllReply, seedTodo, hPc, invoked, nextH,
                   issued, seeded, applied>>
    /\ UNCHANGED <<streamVars, lifeVars, propVars, ownVars>>

\* the closure given to connect_properties_changed runs on the next signal:
\* update_cache runs under the cache lock and returns the collected futures
Dispatch ==
    /\ hPc = "idle"
    /\ inbox # <<>>
    /\ LET msg == Head(inbox)
       IN IF matches(msg.iface)
          THEN \E order \in Orders(DOMAIN msg.changed) :
                  LET r == update_cache(values, msg.changed, msg.invalidated, order)
                  IN /\ values' = r.vals
                     /\ invoked' = r.futures
                     /\ hPc' = "awaiting"
                     /\ applied' = [k \in Props |-> Mention(msg, k, applied[k])]
          ELSE /\ invoked' = <<>>
               /\ UNCHANGED <<values, hPc, applied>>
    /\ inbox' = Tail(inbox)
    /\ UNCHANGED <<task, cpPc, getAllReply, seedTodo, busVal, nextH, issued,
                   emitted, seeded, lateVal>>
    /\ UNCHANGED <<streamVars, lifeVars, propVars, ownVars>>

\* `update_cache(..).await` ends: every collected callback future has finished
CallbacksComplete ==
    /\ hPc = "awaiting"
    /\ hPc' = "idle"
    /\ invoked' = <<>>
    /\ UNCHANGED <<values, task, cpPc, getAllReply, seedTodo, busVal, inbox,
                   nextH, issued, emitted, seeded, applied, lateVal>>
    /\ UNCHANGED <<streamVars, lifeVars, propVars, ownVars>>

\* ------------------------------------------------------------------------
\* Proxy::connect_property_changed, Proxy::disconnect_property_changed
\* ------------------------------------------------------------------------

\* Proxy::connect_property_changed for the handler h: the cache afterwards and the
\* Result returned
connect_property_changed(vals, name, h) ==
    IF ~has_cached_properties
    THEN [vals |-> vals, result |-> "Unsupported", id |-> None]
    ELSE LET ins == EntryOrInsert(vals, name)
             hs == IF ins[name].handlers = None THEN EmptySlotMap
                   ELSE ins[name].handlers[1]
             r == SlotMapInsert(hs, h)
         IN [vals |-> [ins EXCEPT ![name].handlers = Some(r.map)],
             result |-> "Ok",
             id |-> Some([name |-> name, key |-> r.key])]

\* Proxy::disconnect_property_changed: the cache afterwards and the bool returned
disconnect_property_changed(vals, id) ==
    LET e == vals[id.name]
        found == /\ e.present
                 /\ e.handlers # None
                 /\ SlotMapContains(e.handlers[1], id.key)
    IN [vals |-> IF found
                 THEN [vals EXCEPT ![id.name].handlers =
                                       Some(SlotMapRemove(e.handlers[1], id.key))]
                 ELSE vals,
        result |-> found]

ConnectPropertyChanged ==
    /\ nextH < MaxHandlers
    /\ \E name \in Props :
          LET r == connect_property_changed(values, name, nextH + 1)
          IN IF r.result = "Unsupported"
             THEN UNCHANGED <<values, nextH, issued>>   \* Err(Error::Unsupported)
             ELSE /\ values' = r.vals
                  /\ nextH' = nextH + 1
                  /\ issued' = issued \cup {r.id[1]}
    /\ UNCHANGED <<task, cpPc, getAllReply, seedTodo, busVal, inbox, hPc, invoked,
                   emitted, seeded, applied, lateVal>>
    /\ UNCHANGED <<streamVars, lifeVars, propVars, ownVars>>

DisconnectPropertyChanged ==
    /\ \E id \in issued : values' = disconnect_property_changed(values, id).vals
    /\ UNCHANGED <<task, cpPc, getAllReply, seedTodo, busVal, inbox, hPc, invoked, nextH,
                   issued, emitted, seeded, applied, lateVal>>
    /\ UNCHANGED <<streamVars, lifeVars, propVars, ownVars>>

\* ------------------------------------------------------------------------
\* Specifications of the property cache
\* ------------------------------------------------------------------------
\* cache activation racing with PropertiesChanged
ActivateNext ==
    \/ CachePropertiesConnect
    \/ BusAnswerGetAll
    \/ CachePropertiesSeed
    \/ CachePropertiesReturn
    \/ BusEmit
    \/ Dispatch
    \/ CallbacksComplete

SpecActivate == CacheInit /\ [][ActivateNext]_vars

\* a built proxy: without caching, or with caching when GetAll returned nothing
\* (an error, which cache_properties ignores, or an object without properties)
BuiltInit ==
    /\ values = [k \in Props |-> DefaultPropertyValue]
    /\ task \in BOOLEAN
    /\ cpPc = (IF task THEN "done" ELSE "off")
    /\ getAllReply = [ok |-> FALSE, values |-> <<>>]
    /\ seedTodo = {}
    /\ busVal = [k \in Props |-> 1]
    /\ inbox = <<>>
    /\ hPc = "idle"
    /\ invoked = <<>>
    /\ nextH = 0
    /\ issued = {}
    /\ emitted = 0
    /\ seeded = FALSE
    /\ applied = [k \in Props |-> NeverMentioned]
    /\ lateVal = [k \in Props |-> NeverMentioned]
    /\ StreamIdle
    /\ LifeIdle
    /\ PropIdle

CacheNext ==
    \/ BusEmit
    \/ Dispatch
    \/ CallbacksComplete
    \/ ConnectPropertyChanged
    \/ DisconnectPropertyChanged

SpecCache == BuiltInit /\ [][CacheNext]_vars


\* ========================================================================
\* Claims about the property cache
\* ========================================================================
\* the handlers registered for a property: the issued ids still in its SlotMap
Registered(vals, k) ==
    {id \in issued : /\ id.name = k
                     /\ vals[k].present
                     /\ vals[k].handlers # None
                     /\ SlotMapContains(vals[k].handlers[1], id.key)}

HandlerOf(vals, id) == vals[id.name].handlers[1].slots[id.key.idx].h

\* the arguments, in order, of the calls of handler h for property k
RECURSIVE ArgsOf(_, _, _)
ArgsOf(calls, k, h) ==
    IF calls = <<>> THEN <<>>
    ELSE (IF Head(calls).name = k /\ Head(calls).h = h THEN <<Head(calls).arg>> ELSE <<>>)
         \o ArgsOf(Tail(calls), k, h)

RECURSIVE CallsFor(_, _)
CallsFor(calls, k) ==
    IF calls = <<>> THEN <<>>
    ELSE (IF Head(calls).name = k THEN <<Head(calls)>> ELSE <<>>) \o CallsFor(Tail(calls), k)

Occurrences(list, k) == Cardinality({i \in DOMAIN list : list[i] = k})

\* the handler of cache_properties takes the next signal and runs update_cache
DispatchStep == hPc = "idle" /\ hPc' = "awaiting"

\* C1 as stated: the cache holds for k the last value of a changed map of a message
\* strictly later than the last message whose invalidated list names k, and None
\* otherwise (k last named by an invalidated list, or never mentioned).
C1_CacheConsistencyAsStated ==
    ~seeded =>
        \A k \in Props :
            cached_property(k) =
                (IF applied[k].kind = "changed" THEN applied[k].value ELSE None)

\* C1 amended: within one message the invalidated list is applied before the
\* changed map, so the cache holds for k the value of the last message whose changed
\* map names k unless a later message names k in its invalidated list only; it is
\* None when the last message mentioning k names it in invalidated only, or k was
\* never mentioned.
C1_CacheConsistency ==
    ~seeded =>
        \A k \in Props :
            cached_property(k) =
                (IF applied[k].kind \in {"changed", "both"} THEN applied[k].value
                 ELSE None)

\* a property was changed by one message and invalidated by a later one, and
\* another property was named in both lists of one message
C1_Witness ==
    /\ ~seeded
    /\ emitted = 2
    /\ inbox = <<>>
    /\ \E k \in Props : applied[k].kind = "both" /\ cached_property(k) # None
    /\ \E k \in Props : /\ applied[k].kind = "invalidated"
                        /\ values[k].present
                        /\ values[k].handlers = None

\* C2: once cache activation and the pending dispatches are complete, every
\* property that a PropertiesChanged emitted after the GetAll answer mentions holds
\* what the last such message says (the GetAll result has not overwritten it).
C2_GetAllNeverOverwritesNewer ==
    (cpPc = "done" /\ inbox = <<>> /\ hPc = "idle") =>
        \A k \in Props :
            lateVal[k].kind # "never" =>
                cached_property(k) =
                    (IF lateVal[k].kind \in {"changed", "both"} THEN lateVal[k].value
                     ELSE None)

\* C3 as stated: a dispatched message that mentions k invokes each of the N
\* callbacks of k exactly once (N invocations), with Some(new value) or None; a
\* message that does not mention k invokes none.
C3_CallbacksAsStatedBody ==
    LET msg == Head(inbox)
    IN \A k \in Props :
          LET calls == CallsFor(invoked', k)
              reg == Registered(values, k)
          IN IF Mentions(msg, k)
             THEN /\ Len(calls) = Cardinality(reg)
                  /\ \A id \in reg : Len(ArgsOf(invoked', k, HandlerOf(values, id))) = 1
                  /\ \A i \in DOMAIN calls :
                        \/ k \in DOMAIN msg.changed /\ calls[i].arg = Some(msg.changed[k])
                        \/ Invalidates(msg, k) /\ calls[i].arg = None
             ELSE calls = <<>>

C3_CallbacksAsStated == [][DispatchStep => C3_CallbacksAsStatedBody]_vars

\* C3 amended: a dispatched message invokes each of the N callbacks of k once with
\* None for every occurrence of k in `invalidated` and then once with Some(new
\* value) if k is in `changed`, and invokes nothing else for k: N invocations when
\* k occurs once in one of the two lists, none when k is not mentioned.
C3_CallbacksBody ==
    LET msg == Head(inbox)
    IN \A k \in Props :
          LET calls == CallsFor(invoked', k)
              reg == Registered(values, k)
              occ == Occurrences(msg.invalidated, k)
              chg == IF k \in DOMAIN msg.changed THEN 1 ELSE 0
          IN /\ Len(calls) = Cardinality(reg) * (occ + chg)
             /\ \A id \in reg :
                   ArgsOf(invoked', k, HandlerOf(values, id)) =
                       [i \in 1..(occ + chg) |->
                           IF i <= occ THEN None ELSE Some(msg.changed[k])]

C3_Callbacks == [][DispatchStep => C3_CallbacksBody]_vars

\* two callbacks of one property have been invoked by one message
C3_Witness ==
    /\ hPc = "awaiting"
    /\ \E i, j \in DOMAIN invoked : /\ invoked[i].name = invoked[j].name
                                    /\ invoked[i].h # invoked[j].h


\* C26: an error of a bus operation awaited by cache activation is returned to
\* the caller: cache_properties has returned Ok only if GetAll was answered
\* without an error.
C26_GetAllErrorPropagates ==
    cpPc = "done" => getAllReply.ok


\* ========================================================================
\* SignalStream
\* ========================================================================
QuerySerial == "serial-of-GetNameOwner"
OtherSerial == "serial-of-another-call"

NoBody == [ok |-> TRUE, name |-> "", new |-> None]
BadBody == [ok |-> FALSE, name |-> "", new |-> None]

\* the inbound messages of the model; `hdr` FALSE is a message whose header
\* fields cannot be read, `body.ok` FALSE a body that does not deserialize
PlainSignals ==
    [type : {"signal"}, hdr : {TRUE}, sender : {None, Some(U1), Some(U2)},
     path : {ObjPath, DriverPath}, interface : {ProxyInterface, DriverInterface},
     member : {"Sig", "Other"}, reply_serial : {None}, body : {NoBody}]

OwnerChangedSignals ==
    [type : {"signal"}, hdr : {TRUE}, sender : {None, Some(U1), Some(Driver)},
     path : {DriverPath}, interface : {DriverInterface}, member : {NameOwnerChanged},
     reply_serial : {None},
     body : [ok : {TRUE}, name : {FooName, Driver}, new : {None, Some(U1), Some(U2)}]
            \cup {BadBody}]

\* NameOwnerChanged on another path or interface
OwnerChangedElsewhere ==
    [type : {"signal"}, hdr : {TRUE}, sender : {Some(Driver)},
     path : {ObjPath}, interface : {DriverInterface}, member : {NameOwnerChanged},
     reply_serial : {None},
     body : [ok : {TRUE}, name : {FooName, Driver}, new : {Some(U2)}]]
    \cup
    [type : {"signal"}, hdr : {TRUE}, sender : {Some(Driver)},
     path : {DriverPath}, interface : {ProxyInterface}, member : {NameOwnerChanged},
     reply_serial : {None},
     body : [ok : {TRUE}, name : {FooName, Driver}, new : {Some(U2)}]]

MethodReturns ==
    [type : {"method_return"}, hdr : {TRUE}, sender : {Some(Driver)},
     path : {""}, interface : {""}, member : {""},
     reply_serial : {Some(QuerySerial), Some(OtherSerial)},
     body : [ok : {TRUE}, name : {U1, U2, Driver}, new : {None}] \cup {BadBody}]

OtherMessages ==
    { \* the error reply to GetNameOwner (the name has no owner)
      [type |-> "error", hdr |-> TRUE, sender |-> Some(Driver), path |-> "",
       interface |-> "", member |-> "", reply_serial |-> Some(QuerySerial),
       body |-> NoBody],
      [type |-> "method_call", hdr |-> TRUE, sender |-> Some(U1), path |-> ObjPath,
       interface |-> ProxyInterface, member |-> "Sig", reply_serial |-> None,
       body |-> NoBody],
      \* a signal whose header fields cannot be parsed
      [type |-> "signal", hdr |-> FALSE, sender |-> Some(U1), path |-> ObjPath,
       interface |-> ProxyInterface, member |-> "Sig", reply_serial |-> None,
       body |-> NoBody],
      [type |-> "method_return", hdr |-> FALSE, sender |-> Some(Driver), path |-> "",
       interface |-> "", member |-> "", reply_serial |-> Some(QuerySerial),
       body |-> [ok |-> TRUE, name |-> U1, new |-> None]] }

Messages ==
    PlainSignals \cup OwnerChangedSignals \cup OwnerChangedElsewhere
    \cup MethodReturns \cup OtherMessages

StreamMembers == {None, Some("Sig"), Some(NameOwnerChanged)}

\* the state of the filter: [src_query, src_unique_name]
FilterResult(result, query, owner) ==
    [result |-> result, src_query |-> query, src_unique_name |-> owner]

\* a tracking that forgets the owner when the body does not deserialize
TrackOwnerForgetting(msg, query, owner) ==
    IF /\ src_bus_name # None
       /\ msg.member = NameOwnerChanged
       /\ msg.interface = DriverInterface
       /\ msg.path = DriverPath
       /\ msg.sender = Some(Driver)
    THEN IF ~msg.body.ok THEN FilterResult("err", query, None)
         ELSE IF Some(msg.body.name) = src_bus_name
         THEN FilterResult("false", query, msg.body.new)
         ELSE FilterResult("false", query, owner)
    ELSE FilterResult("false", query, owner)

\* the tracking of NameOwnerChanged at the end of SignalStream::filter
TrackOwner(msg, query, owner) ==
    IF /\ src_bus_name # None
       /\ msg.member = NameOwnerChanged
       /\ msg.interface = DriverInterface
       /\ msg.path = DriverPath
       /\ msg.sender = Some(Driver)
    THEN IF ~msg.body.ok THEN FilterResult("err", query, owner)   \* msg.body()?
         ELSE IF Some(msg.body.name) = src_bus_name
         THEN FilterResult("false", query, msg.body.new)
         ELSE FilterResult("false", query, owner)
    ELSE FilterResult("false", query, owner)

\* a filter that does not compare the sender with src_unique_name
FilterSignalAnySender(msg, query, owner) ==
    IF ~msg.hdr THEN FilterResult("err", query, owner)
    ELSE IF /\ (sMember = None \/ Some(msg.member) = sMember)
            /\ msg.path = proxy.path
            /\ msg.interface = proxy.interface
    THEN FilterResult("true", query, owner)
    ELSE TrackOwner(msg, query, owner)

\* a filter that does not compare the member
FilterSignalAnyMember(msg, query, owner) ==
    IF ~msg.hdr THEN FilterResult("err", query, owner)
    ELSE IF /\ msg.path = proxy.path
            /\ msg.interface = proxy.interface
            /\ msg.sender = owner
    THEN FilterResult("true", query, owner)
    ELSE TrackOwner(msg, query, owner)

\* a filter that takes the new owner of any name
FilterSignalAnyName(msg, query, owner) ==
    IF ~msg.hdr THEN FilterResult("err", query, owner)
    ELSE IF /\ (sMember = None \/ Some(msg.member) = sMember)
            /\ msg.path = proxy.path
            /\ msg.interface = proxy.interface
            /\ msg.sender = owner
    THEN FilterResult("true", query, owner)
    ELSE IF /\ src_bus_name # None
            /\ msg.member = NameOwnerChanged
            /\ msg.interface = DriverInterface
            /\ msg.path = DriverPath
            /\ msg.sender = Some(Driver)
            /\ msg.body.ok
    THEN FilterResult("false", query, msg.body.new)
    ELSE TrackOwner(msg, query, owner)

\* SignalStream::filter, second half: the message is a SIGNAL
FilterSignal(msg, query, owner) ==
    IF ~msg.hdr THEN FilterResult("err", query, owner)            \* msg.member()?
    ELSE IF /\ (sMember = None \/ Some(msg.member) = sMember)
            /\ msg.path = proxy.path
            /\ msg.interface = proxy.interface
            /\ msg.sender = owner
    THEN FilterResult("true", query, owner)
    ELSE TrackOwner(msg, query, owner)

\* SignalStream::filter
Filter(msg) ==
    IF msg.type = "method_return" /\ src_query # None
    THEN IF ~msg.hdr THEN FilterResult("err", src_query, src_unique_name)
         ELSE IF msg.reply_serial = src_query
         THEN \* src_query is cleared before the body is parsed
              IF msg.body.ok
              THEN FilterResult("false", None, Some(msg.body.name))
              ELSE FilterResult("err", None, src_unique_name)
         ELSE FilterResult("false", src_query, src_unique_name)
    ELSE IF msg.type # "signal"
    THEN FilterResult("false", src_query, src_unique_name)
    ELSE FilterSignal(msg, src_query, src_unique_name)


\* the message is a SIGNAL on the proxy's path and interface with the stream's
\* member (any member for receive_all_signals)
IsProxySignal(msg) ==
    /\ msg.type = "signal"
    /\ msg.hdr
    /\ msg.path = proxy.path
    /\ msg.interface = proxy.interface
    /\ (sMember # None => msg.member = sMember[1])

CacheIdle ==
    /\ values = [k \in Props |-> DefaultPropertyValue]
    /\ task = FALSE
    /\ cpPc = "off"
    /\ getAllReply = [ok |-> FALSE, values |-> <<>>]
    /\ seedTodo = {}
    /\ busVal = [k \in Props |-> 1]
    /\ inbox = <<>>
    /\ hPc = "idle"
    /\ invoked = <<>>
    /\ nextH = 0
    /\ issued = {}
    /\ emitted = 0
    /\ seeded = FALSE
    /\ applied = [k \in Props |-> NeverMentioned]
    /\ lateVal = [k \in Props |-> NeverMentioned]
    /\ PropIdle

StreamInit ==
    /\ proxy \in ProxyConfigs
    /\ sState = "none"
    /\ sMember = None
    /\ src_bus_name = None
    /\ src_query = None
    /\ src_unique_name = None
    /\ chan = <<>>
    /\ closed = FALSE
    /\ delivered = 0
    /\ yieldedIds = <<>>
    /\ expectIds = <<>>
    /\ early = {}
    /\ replyOwner = None
    /\ CacheIdle
    /\ LifeIdle

\* Proxy::receive_signals returning Ok(SignalStream): the receiver is activated,
\* the match rules are added and, for a well-known destination, GetNameOwner is sent
ReceiveSignals ==
    /\ sState = "none"
    /\ \E signal_name \in StreamMembers :
          sMember' = signal_name
    /\ sState' = "open"
    /\ IF proxy.destination.kind = "unique"
       THEN /\ src_bus_name' = None
            /\ src_unique_name' = Some(proxy.destination.name)
            /\ src_query' = None
       ELSE /\ src_bus_name' = Some(proxy.destination.name)
            /\ src_unique_name' = None
            /\ src_query' = Some(QuerySerial)
    /\ UNCHANGED <<proxy, chan, closed, delivered, yieldedIds, expectIds, early,
                   replyOwner>>
    /\ UNCHANGED <<cacheVars, lifeVars, propVars, ownVars>>

\* the connection broadcasts an inbound message to the stream's receiver
Deliver ==
    /\ sState = "open"
    /\ ~closed
    /\ delivered < MaxDeliver
    /\ Len(chan) < MaxChan
    /\ \E msg \in Messages : chan' = Append(chan, msg)
    /\ delivered' = delivered + 1
    /\ UNCHANGED <<proxy, sState, sMember, src_bus_name, src_query, src_unique_name,
                   closed, yieldedIds, expectIds, early, replyOwner>>
    /\ UNCHANGED <<cacheVars, lifeVars, propVars, ownVars>>

\* the connection's broadcast channel is closed
CloseChannel ==
    /\ sState = "open"
    /\ ~closed
    /\ closed' = TRUE
    /\ UNCHANGED <<proxy, sState, sMember, src_bus_name, src_query, src_unique_name,
                   chan, delivered, yieldedIds, expectIds, early, replyOwner>>
    /\ UNCHANGED <<cacheVars, lifeVars, propVars, ownVars>>

\* SignalStream::poll_next, one turn of its loop: the next message of the receiver
\* is filtered and returned if the filter says Ok(true)
PollNext ==
    /\ sState = "open"
    /\ chan # <<>>
    /\ LET msg == Head(chan)
           id == delivered - Len(chan) + 1
           r == Filter(msg)
       IN /\ src_query' = r.src_query
          /\ src_unique_name' = r.src_unique_name
          /\ yieldedIds' = IF r.result = "true" THEN Append(yieldedIds, id)
                           ELSE yieldedIds
          /\ expectIds' = IF IsProxySignal(msg) /\ msg.sender = src_unique_name
                          THEN Append(expectIds, id) ELSE expectIds
          /\ early' = IF /\ msg.type = "signal" /\ msg.member = NameOwnerChanged
                         /\ r.src_unique_name # src_unique_name
                      THEN {}
                      ELSE IF /\ src_query # None
                              /\ IsProxySignal(msg)
                              /\ msg.sender # None
                              /\ r.result # "true"
                      THEN early \cup {[id |-> id, sender |-> msg.sender]}
                      ELSE early
          /\ replyOwner' = IF src_query # None /\ r.src_query = None /\ r.result = "false"
                           THEN r.src_unique_name ELSE replyOwner
    /\ chan' = Tail(chan)
    /\ UNCHANGED <<proxy, sState, sMember, src_bus_name, closed, delivered>>
    /\ UNCHANGED <<cacheVars, lifeVars, propVars, ownVars>>

\* a poll_next that ends the stream as soon as the receiver has nothing buffered
PollEndWhenEmpty ==
    /\ sState = "open"
    /\ chan = <<>>
    /\ sState' = "ended"
    /\ UNCHANGED <<proxy, sMember, src_bus_name, src_query, src_unique_name, chan,
                   closed, delivered, yieldedIds, expectIds, early, replyOwner>>
    /\ UNCHANGED <<cacheVars, lifeVars, propVars, ownVars>>

\* SignalStream::poll_next when the receiver has ended: Poll::Ready(None)
PollEnd ==
    /\ sState = "open"
    /\ chan = <<>>
    /\ closed
    /\ sState' = "ended"
    /\ UNCHANGED <<proxy, sMember, src_bus_name, src_query, src_unique_name, chan,
                   closed, delivered, yieldedIds, expectIds, early, replyOwner>>
    /\ UNCHANGED <<cacheVars, lifeVars, propVars, ownVars>>

StreamNext ==
    \/ ReceiveSignals
    \/ Deliver
    \/ CloseChannel
    \/ PollNext
    \/ PollEnd

SpecStream == StreamInit /\ [][StreamNext]_vars

\* the stream is polled again and again
SpecStreamFair == SpecStream /\ WF_vars(PollNext) /\ WF_vars(PollEnd)


\* ========================================================================
\* Claims about SignalStream
\* ========================================================================
\* poll_next filters the next message of the receiver
PollStep == chan # <<>> /\ chan' = Tail(chan) /\ delivered' = delivered

\* poll_next returns a message
YieldStep == Len(yieldedIds') > Len(yieldedIds)

\* C4: every message a SignalStream yields is a SIGNAL with the proxy's path and
\* interface, the stream's member (any member for receive_all_signals), and a sender
\* equal to src_unique_name at the moment of the yield.
C4_YieldedMatchesFilter ==
    [][YieldStep =>
          LET msg == Head(chan)
          IN /\ msg.type = "signal"
             /\ msg.path = proxy.path
             /\ msg.interface = proxy.interface
             /\ (sMember # None => Some(msg.member) = sMember)
             /\ msg.sender = src_unique_name']_vars

\* a stream on a well-known name has yielded a signal of the owner that the
\* GetNameOwner reply named
C4_Witness ==
    /\ yieldedIds # <<>>
    /\ src_bus_name # None
    /\ replyOwner # None
    /\ src_unique_name = replyOwner

RECURSIVE Increasing(_)
Increasing(ids) ==
    \/ Len(ids) <= 1
    \/ ids[1] < ids[2] /\ Increasing(Tail(ids))

C6_NoYieldWhileUnresolved ==
    [][(YieldStep /\ src_bus_name # None) => src_unique_name' # None]_vars

\* C7: when the stream has ended, every matching signal that was received while
\* GetNameOwner was pending and whose sender is the owner named by the reply has
\* been yielded.
C7_EarlySignalsNotLost ==
    (sState = "ended" /\ replyOwner # None) =>
        \A e \in early :
            e.sender = replyOwner => \E i \in DOMAIN yieldedIds : yieldedIds[i] = e.id

\* a NameOwnerChanged signal of the bus driver's object whose body deserializes
IsOwnerChanged(msg) ==
    /\ msg.type = "signal"
    /\ msg.hdr
    /\ msg.member = NameOwnerChanged
    /\ msg.body.ok

FromDriver(msg) ==
    /\ msg.path = DriverPath
    /\ msg.interface = DriverInterface
    /\ msg.sender = Some(Driver)

FilterFailsStep == PollStep /\ Filter(Head(chan)).result = "err"

\* the message is the METHOD_RETURN that answers the pending GetNameOwner
AnswersQuery(msg) ==
    /\ msg.type = "method_return"
    /\ msg.hdr
    /\ src_query # None
    /\ msg.reply_serial = src_query

\* C27: a SignalStream has ended only if its channel is closed and nothing is left
\* buffered; a message on which the filter fails does not end it; and once the
\* channel is closed a polled stream eventually ends.
C27_EndsWithChannel ==
    /\ [](sState = "ended" => (closed /\ chan = <<>>))
    /\ [][FilterFailsStep => sState' = "open"]_vars
    /\ [][sState' = "ended" => (closed /\ chan = <<>>)]_vars
    /\ (closed /\ sState = "open") ~> (sState = "ended")

\* a stream has ended after as many messages as the channel carried, the pending
\* GetNameOwner having been answered by a reply that did not deserialize
C27_Witness ==
    /\ sState = "ended"
    /\ delivered = MaxDeliver
    /\ src_bus_name # None
    /\ src_query = None
    /\ replyOwner = None

\* C30 as stated: a message on which the filter fails is not yielded and leaves
\* src_query and src_unique_name as they were.
C30_FilterFailureKeepsState ==
    [][FilterFailsStep =>
          /\ yieldedIds' = yieldedIds
          /\ src_query' = src_query
          /\ src_unique_name' = src_unique_name]_vars

\* C30 amended: a message on which the filter fails is not yielded and leaves
\* src_unique_name as it was; it leaves src_query as it was unless the message is
\* the METHOD_RETURN answering the pending GetNameOwner (whose body does not
\* deserialize), which clears src_query.
C30_FilterFailure ==
    [][FilterFailsStep =>
          /\ yieldedIds' = yieldedIds
          /\ src_unique_name' = src_unique_name
          /\ src_query' = (IF AnswersQuery(Head(chan)) THEN None ELSE src_query)]_vars

\* the reply to GetNameOwner did not deserialize: two messages were filtered,
\* none was yielded, no owner is known and no query is pending
C30_Witness ==
    /\ sState = "open"
    /\ src_bus_name # None
    /\ src_query = None
    /\ replyOwner = None
    /\ src_unique_name = None
    /\ yieldedIds = <<>>
    /\ delivered = 2
    /\ chan = <<>>

\* ========================================================================
\* Match rules and signal handlers of a proxy
\* ========================================================================
\* the proxy has one clone; if its builder has run cache_properties, the closure
\* given to connect_properties_changed holds a clone of Arc<ProxyProperties>
OwnInit ==
    /\ clones = 1
    /\ taskOnConn \in BOOLEAN
    /\ propsStrong = (IF taskOnConn THEN 2 ELSE 1)
    /\ taskQueued = FALSE
    /\ connMember = <<>>
    /\ sigCalls = NoEmission

LifeInit ==
    /\ isBus \in BOOLEAN
    /\ watcher = None
    /\ matchAdds = [e \in Exprs |-> 0]
    /\ matchRemoves = [e \in Exprs |-> 0]
    /\ ops = [c \in Callers |-> IdleCall]
    /\ streams = [c \in Callers |-> "none"]
    /\ sig_handlers = <<>>
    /\ connHandlers = {}
    /\ nextId = 0
    /\ queuedRemovals = <<>>
    /\ discResults = [id \in HandlerIds |-> <<>>]
    /\ proxyDropped = FALSE
    /\ OwnInit
    /\ CacheIdle
    /\ proxy \in {p \in ProxyConfigs : p.path = ObjPath}
    /\ sState = "none"
    /\ sMember = None
    /\ src_bus_name = None
    /\ src_query = None
    /\ src_unique_name = None
    /\ chan = <<>>
    /\ closed = FALSE
    /\ delivered = 0
    /\ yieldedIds = <<>>
    /\ expectIds = <<>>
    /\ early = {}
    /\ replyOwner = None

LifeFrame == UNCHANGED <<cacheVars, streamVars, propVars, isBus>>

\* the step after destination_unique_name in the operation of call c
AfterDun(c) == IF ops[c].op = "receive" THEN "add_match" ELSE "add_handler"

\* receive_signals / connect_signal is called
StartCall(c) ==
    /\ ~proxyDropped
    /\ ops[c].pc = "idle"
    /\ \E op \in {"receive", "connect"}, member \in LifeMembers \cup ConnectMembers :
          /\ (op = "receive" => member \in LifeMembers)
          /\ (op = "connect" => member \in ConnectMembers)
          /\ ops' = [ops EXCEPT ![c] = [pc |-> "dun", op |-> op, member |-> member]]
    /\ UNCHANGED <<watcher, matchAdds, matchRemoves, streams, sig_handlers, connHandlers,
                   nextId, queuedRemovals, discResults, proxyDropped>>
    /\ LifeFrame
    /\ UNCHANGED ownVars

\* a destination_unique_name that registers the rule whatever the connection,
\* the destination and the slot are
dun_always_adds(bus, kind, w) == TRUE

\* destination_unique_name up to its first await: does it go on to add_match?
dun_adds(bus, kind, w) ==
    IF ~bus THEN FALSE
    ELSE IF kind # "wellknown" THEN FALSE
    ELSE IF w # None THEN FALSE
    ELSE TRUE

\* destination_unique_name up to its first await
DunCheck(c) ==
    /\ ops[c].pc = "dun"
    /\ ops' = [ops EXCEPT ![c].pc =
                  IF dun_adds(isBus, proxy.destination.kind, watcher)
                  THEN "dun_add" ELSE AfterDun(c)]
    /\ UNCHANGED <<watcher, matchAdds, matchRemoves, streams, sig_handlers, connHandlers,
                   nextId, queuedRemovals, discResults, proxyDropped>>
    /\ LifeFrame
    /\ UNCHANGED ownVars

\* destination_unique_name: add_match returns, and the expression is set in
\* dest_name_watcher unless another call has set it
DunAddMatch(c) ==
    /\ ops[c].pc = "dun_add"
    /\ \E ok \in BOOLEAN :
          IF ~ok
          THEN /\ ops' = [ops EXCEPT ![c].pc = "failed"]
               /\ UNCHANGED <<matchAdds, watcher>>
          ELSE /\ matchAdds' = [matchAdds EXCEPT ![TrackerExpr] = @ + 1]
               /\ IF watcher = None
                  THEN /\ watcher' = Some(TrackerExpr)
                       /\ ops' = [ops EXCEPT ![c].pc = AfterDun(c)]
                  ELSE /\ UNCHANGED watcher
                       /\ ops' = [ops EXCEPT ![c].pc = "dun_remove"]
    /\ UNCHANGED <<matchRemoves, streams, sig_handlers, connHandlers, nextId,
                   queuedRemovals, discResults, proxyDropped>>
    /\ LifeFrame
    /\ UNCHANGED ownVars

\* a loser of the race that keeps its duplicate
DunKeepDuplicate(c) ==
    /\ ops[c].pc = "dun_remove"
    /\ ops' = [ops EXCEPT ![c].pc = AfterDun(c)]
    /\ UNCHANGED <<watcher, matchAdds, matchRemoves, streams, sig_handlers, connHandlers,
                   nextId, queuedRemovals, discResults, proxyDropped>>
    /\ LifeFrame
    /\ UNCHANGED ownVars

\* destination_unique_name: the call that lost the race removes its duplicate
DunRemoveDuplicate(c) ==
    /\ ops[c].pc = "dun_remove"
    /\ matchRemoves' = [matchRemoves EXCEPT ![TrackerExpr] = @ + 1]
    /\ \E ok \in BOOLEAN :
          ops' = [ops EXCEPT ![c].pc = IF ok THEN AfterDun(c) ELSE "failed"]
    /\ UNCHANGED <<watcher, matchAdds, streams, sig_handlers, connHandlers, nextId,
                   queuedRemovals, discResults, proxyDropped>>
    /\ LifeFrame
    /\ UNCHANGED ownVars

\* receive_signals: conn.add_match(expr) returns
RsAddMatch(c) ==
    /\ ops[c].pc = "add_match"
    /\ \E ok \in BOOLEAN :
          IF ok
          THEN /\ matchAdds' = [matchAdds EXCEPT ![StreamExpr(ops[c].member)] = @ + 1]
               /\ ops' = [ops EXCEPT ![c].pc = "owner"]
          ELSE /\ ops' = [ops EXCEPT ![c].pc = "failed"]
               /\ UNCHANGED matchAdds
    /\ UNCHANGED <<watcher, matchRemoves, streams, sig_handlers, connHandlers, nextId,
                   queuedRemovals, discResults, proxyDropped>>
    /\ LifeFrame
    /\ UNCHANGED ownVars

\* receive_signals: for a well-known name GetNameOwner is sent; the SignalStream
\* is returned unless sending failed
RsGetNameOwner(c) ==
    /\ ops[c].pc = "owner"
    /\ \E ok \in BOOLEAN :
          IF proxy.destination.kind = "unique" \/ ok
          THEN /\ streams' = [streams EXCEPT ![c] = "live"]
               /\ ops' = [ops EXCEPT ![c].pc = "done"]
          ELSE /\ ops' = [ops EXCEPT ![c].pc = "failed"]
               /\ UNCHANGED streams
    /\ UNCHANGED <<watcher, matchAdds, matchRemoves, sig_handlers, connHandlers, nextId,
                   queuedRemovals, discResults, proxyDropped>>
    /\ LifeFrame
    /\ UNCHANGED ownVars

\* Drop for SignalStream
DropStream(c) ==
    /\ streams[c] = "live"
    /\ streams' = [streams EXCEPT ![c] = "dropped"]
    /\ matchRemoves' = [matchRemoves EXCEPT ![StreamExpr(ops[c].member)] = @ + 1]
    /\ UNCHANGED <<watcher, matchAdds, ops, sig_handlers, connHandlers, nextId,
                   queuedRemovals, discResults, proxyDropped>>
    /\ LifeFrame
    /\ UNCHANGED ownVars

\* Connection::add_signal_handler
add_signal_handler(handlers, n) == [handlers |-> handlers \cup {n + 1}, id |-> n + 1]

\* connect_signal: add_signal_handler returns and the id is pushed to sig_handlers
CsAddHandler(c) ==
    /\ ops[c].pc = "add_handler"
    /\ \E ok \in BOOLEAN :
          IF ok
          THEN LET r == add_signal_handler(connHandlers, nextId)
               IN /\ connHandlers' = r.handlers
                  /\ nextId' = r.id
                  /\ sig_handlers' = Append(sig_handlers, r.id)
                  /\ connMember' = Append(connMember, ops[c].member[1])
                  /\ ops' = [ops EXCEPT ![c].pc = "done"]
          ELSE /\ ops' = [ops EXCEPT ![c].pc = "failed"]
               /\ UNCHANGED <<connHandlers, nextId, sig_handlers, connMember>>
    /\ UNCHANGED <<watcher, matchAdds, matchRemoves, streams, queuedRemovals,
                   discResults, proxyDropped>>
    /\ UNCHANGED <<clones, taskOnConn, propsStrong, taskQueued, sigCalls>>
    /\ LifeFrame

\* Connection::remove_signal_handler: the handler is taken out of the connection's
\* registry; on a bus its match rule is then removed, which can fail
remove_signal_handler(handlers, id, matchOk) ==
    IF id \in handlers
    THEN [handlers |-> handlers \ {id},
          result |-> IF isBus /\ ~matchOk THEN "err" ELSE "true"]
    ELSE [handlers |-> handlers, result |-> "false"]

\* a retain that keeps every id
RetainAll(list, id) == list

\* a retain that keeps no id
RetainNone(list, id) == <<>>

\* sig_handlers.retain(|id| *id != handler_id.0)
RECURSIVE Retain(_, _)
Retain(list, id) ==
    IF list = <<>> THEN <<>>
    ELSE (IF Head(list) # id THEN <<Head(list)>> ELSE <<>>) \o Retain(Tail(list), id)

\* a disconnect_signal that takes the id out of sig_handlers only when the
\* connection reports no error
DisconnectSignalRollback ==
    /\ ~proxyDropped
    /\ \E id \in 1..nextId, matchOk \in BOOLEAN :
          LET r == remove_signal_handler(connHandlers, id, matchOk)
          IN /\ Len(discResults[id]) < MaxDisconnects
             /\ sig_handlers' = IF r.result = "err" THEN sig_handlers
                                ELSE Retain(sig_handlers, id)
             /\ connHandlers' = r.handlers
             /\ discResults' = [discResults EXCEPT ![id] = Append(@, r.result)]
    /\ UNCHANGED <<watcher, matchAdds, matchRemoves, ops, streams, nextId,
                   queuedRemovals, proxyDropped>>
    /\ LifeFrame
    /\ UNCHANGED ownVars

\* Proxy::disconnect_signal
DisconnectSignal ==
    /\ ~proxyDropped
    /\ \E id \in 1..nextId, matchOk \in BOOLEAN :
          LET r == remove_signal_handler(connHandlers, id, matchOk)
          IN /\ Len(discResults[id]) < MaxDisconnects
             /\ sig_handlers' = Retain(sig_handlers, id)
             /\ connHandlers' = r.handlers
             /\ discResults' = [discResults EXCEPT ![id] = Append(@, r.result)]
    /\ UNCHANGED <<watcher, matchAdds, matchRemoves, ops, streams, nextId,
                   queuedRemovals, proxyDropped>>
    /\ LifeFrame
    /\ UNCHANGED ownVars

\* Drop for ProxyInnerStatic, when the last clone of the proxy goes away; the
\* streams and the running calls borrow the proxy
DropProxy ==
    /\ ~proxyDropped
    /\ clones = 1
    /\ \A c \in Callers : ops[c].pc \in {"idle", "done", "failed"} /\ streams[c] # "live"
    /\ queuedRemovals' = queuedRemovals \o sig_handlers
    /\ matchRemoves' = IF watcher # None
                       THEN [matchRemoves EXCEPT ![watcher[1]] = @ + 1]
                       ELSE matchRemoves
    /\ watcher' = None
    /\ proxyDropped' = TRUE
    /\ clones' = 0
    \* the Proxy's Arc<ProxyProperties> goes away; when it was the last one the
    \* PropertiesProxy is dropped, whose sig_handlers hold the PropertiesChanged handler
    /\ propsStrong' = propsStrong - 1
    /\ taskQueued' = IF propsStrong = 1 THEN taskOnConn ELSE taskQueued
    /\ UNCHANGED <<matchAdds, ops, streams, sig_handlers, connHandlers, nextId,
                   discResults>>
    /\ UNCHANGED <<taskOnConn, connMember, sigCalls>>
    /\ LifeFrame

\* Proxy::clone (derived): the Arcs of ProxyInner and ProxyProperties are cloned
CloneProxy ==
    /\ ~proxyDropped
    /\ clones < MaxClones
    /\ clones' = clones + 1
    /\ propsStrong' = propsStrong + 1
    /\ UNCHANGED <<taskOnConn, taskQueued, connMember, sigCalls>>
    /\ UNCHANGED lifeVars
    /\ UNCHANGED <<cacheVars, streamVars, propVars>>

\* a clone other than the last one is dropped: only the strong counts change
DropClone ==
    /\ clones > 1
    /\ clones' = clones - 1
    /\ propsStrong' = propsStrong - 1
    /\ UNCHANGED <<taskOnConn, taskQueued, connMember, sigCalls>>
    /\ UNCHANGED lifeVars
    /\ UNCHANGED <<cacheVars, streamVars, propVars>>

\* the handlers the connection invokes for a signal with member m: every
\* registered handler of that member, once
RECURSIVE dispatch_signal(_, _, _, _)
dispatch_signal(handlers, members, m, id) ==
    IF id > Len(members) THEN <<>>
    ELSE (IF id \in handlers /\ members[id] = m THEN <<id>> ELSE <<>>)
         \o dispatch_signal(handlers, members, m, id + 1)

\* a signal of the proxy's destination, path and interface reaches the connection
ConnEmitSignal ==
    /\ \E m \in {cm[1] : cm \in ConnectMembers} :
          sigCalls' = [member |-> m, ids |-> dispatch_signal(connHandlers, connMember, m, 1)]
    /\ sigCalls' # sigCalls
    /\ UNCHANGED <<clones, taskOnConn, propsStrong, taskQueued, connMember>>
    /\ UNCHANGED lifeVars
    /\ UNCHANGED <<cacheVars, streamVars, propVars>>

LifeNext ==
    \/ \E c \in Callers : StartCall(c)
    \/ \E c \in Callers : DunCheck(c)
    \/ \E c \in Callers : DunAddMatch(c)
    \/ \E c \in Callers : DunRemoveDuplicate(c)
    \/ \E c \in Callers : RsAddMatch(c)
    \/ \E c \in Callers : RsGetNameOwner(c)
    \/ \E c \in Callers : DropStream(c)
    \/ \E c \in Callers : CsAddHandler(c)
    \/ DisconnectSignal
    \/ DropProxy
    \/ CloneProxy
    \/ DropClone
    \/ ConnEmitSignal

SpecLife == LifeInit /\ [][LifeNext]_vars


\* ========================================================================
\* Claims about match rules and signal handlers
\* ========================================================================
\* C9: on a bus connection, once the proxy and all its streams have been dropped,
\* every match expression has had exactly as many remove_match / queue_remove_match
\* calls as add_match calls that returned Ok, also when a later step of the
\* operation failed.
C9_MatchRuleParity ==
    (isBus /\ proxyDropped /\ \A c \in Callers : streams[c] # "live") =>
        \A e \in Exprs : matchRemoves[e] = matchAdds[e]

InList(list, id) == \E i \in DOMAIN list : list[i] = id

\* C10: for an id returned by connect_signal, the first disconnect_signal call that
\* returns a value returns true (it does not return false), every later call
\* returns false, and after the first call the id is not in sig_handlers.
C10_DisconnectSignalIdempotent ==
    \A id \in HandlerIds :
        LET r == discResults[id]
        IN r # <<>> =>
              /\ r[1] # "false"
              /\ \A i \in 2..Len(r) : r[i] = "false"
              /\ ~InList(sig_handlers, id)

\* a handler was disconnected three times
C10_Witness ==
    \E id \in HandlerIds : discResults[id] = <<"true", "false", "false">>

\* C12: nothing is enqueued for removal while a clone of the proxy is alive; once
\* the last clone has been dropped, every signal handler the proxy installed and
\* has not disconnected has been passed to queue_remove_signal_handler once, the
\* PropertiesChanged handler of cache activation included, and the owner-tracker
\* match rule, if recorded, has been removed as often as it was added.
C12_LastDropQueuesRemovals ==
    /\ clones > 0 => (queuedRemovals = <<>> /\ ~taskQueued /\ ~proxyDropped)
    /\ clones = 0 =>
          /\ \A id \in 1..nextId :
                discResults[id] = <<>> => Occurrences(queuedRemovals, id) = 1
          /\ taskOnConn => taskQueued
          /\ matchRemoves[TrackerExpr] = matchAdds[TrackerExpr]

\* the connection dispatches a signal to the handlers
EmitStep == sigCalls' # sigCalls

\* disconnect_signal(id) returns
DisconnectStep(id) == discResults'[id] # discResults[id]

\* C19: the ids connect_signal returns are distinct; a signal emission invokes each
\* handler registered for its member exactly once, also when two handlers are
\* registered for that member, and no other handler; disconnect_signal of a
\* registered id does not return false and leaves every other handler registered.
C19_TwoHandlersSameMember ==
    /\ [](/\ Len(connMember) = nextId
          /\ \A i, j \in DOMAIN sig_handlers : i # j => sig_handlers[i] # sig_handlers[j])
    /\ [][EmitStep =>
             \A id \in 1..nextId :
                Occurrences(sigCalls'.ids, id) =
                    (IF id \in connHandlers /\ connMember[id] = sigCalls'.member
                     THEN 1 ELSE 0)]_vars
    /\ [][\A id \in 1..nextId :
             DisconnectStep(id) =>
                /\ id \in connHandlers =>
                      discResults'[id][Len(discResults'[id])] # "false"
                /\ \A other \in (1..nextId) \ {id} :
                      /\ other \in connHandlers => other \in connHandlers'
                      /\ InList(sig_handlers, other) => InList(sig_handlers', other)]_vars

\* an emission invoked two handlers of one member; one of them was then
\* disconnected and the other is still registered
C19_Witness ==
    /\ Len(sigCalls.ids) = 2
    /\ \E id, other \in 1..nextId :
          /\ id # other
          /\ connMember[id] = connMember[other]
          /\ discResults[id] = <<"true">>
          /\ other \in connHandlers
          /\ InList(sig_handlers, other)

\* every receive_signals / connect_signal call has returned
AllCallsCompleted == \A c \in Callers : ops[c].pc \in {"idle", "done", "failed"}

\* no receive_signals / connect_signal call was ever made
NoCallYet == \A c \in Callers : ops[c].pc = "idle"

\* C21: on a bus connection with a well-known destination, once every
\* receive_signal / receive_all_signals / connect_signal call has returned and
\* the add_match of at least one of them succeeded, dest_name_watcher holds the
\* tracker expression and add_match minus remove_match for it is exactly one,
\* however the calls interleaved; a call that finds the slot set issues no
\* add_match for it.
C21_TrackerAtMostOnce ==
    /\ []((/\ isBus
           /\ proxy.destination.kind = "wellknown"
           /\ ~proxyDropped
           /\ AllCallsCompleted
           /\ matchAdds[TrackerExpr] > 0) =>
              /\ watcher = Some(TrackerExpr)
              /\ matchAdds[TrackerExpr] - matchRemoves[TrackerExpr] = 1)
    /\ [][\A c \in Callers :
             (ops[c].pc = "dun" /\ watcher # None /\ ops'[c] # ops[c]) =>
                (ops'[c].pc = AfterDun(c) /\ matchAdds' = matchAdds)]_vars

\* two calls raced: both added the rule, the loser removed its duplicate
C21_Witness ==
    /\ AllCallsCompleted
    /\ ~proxyDropped
    /\ matchAdds[TrackerExpr] = 2
    /\ matchRemoves[TrackerExpr] = 1
    /\ watcher = Some(TrackerExpr)
    /\ \A c \in Callers : ops[c].pc = "done"

\* C22: no add_match for the owner-tracker rule is issued before the first
\* receive_signal, receive_all_signals or connect_signal call on the proxy, and
\* none is ever issued (and the slot stays empty) when the destination is a
\* unique name or the connection is not a bus connection.
C22_TrackerLazy ==
    /\ NoCallYet => (matchAdds[TrackerExpr] = 0 /\ watcher = None)
    /\ (~isBus \/ proxy.destination.kind # "wellknown") =>
          /\ matchAdds[TrackerExpr] = 0
          /\ watcher = None
          /\ \A c \in Callers : ops[c].pc \notin {"dun_add", "dun_remove"}

\* on a bus connection with a unique-name destination a stream was returned and a
\* handler connected without any tracker rule
C22_Witness ==
    /\ isBus
    /\ proxy.destination.kind = "unique"
    /\ \E c \in Callers : ops[c].pc = "done" /\ streams[c] = "live"
    /\ \E c \in Callers : ops[c].pc = "done" /\ ops[c].op = "connect"
    /\ matchAdds[TrackerExpr] = 0

\* ========================================================================
\* The handlers of property changes: connect and disconnect
\* ========================================================================
\* connect_property_changed is called for a new callback
HConnect ==
    /\ nextH < MaxRegs
    /\ \E name \in Props :
          LET r == connect_property_changed(values, name, nextH + 1)
          IN /\ values' = r.vals
             /\ callResult' = [op |-> "connect", name |-> name, result |-> r.result,
                               id |-> r.id, tick |-> ~callResult.tick]
             /\ IF r.result = "Ok"
                THEN /\ nextH' = nextH + 1
                     /\ issued' = issued \cup {r.id[1]}
                     /\ hLive' = hLive \cup {[id |-> r.id[1], h |-> nextH + 1]}
                ELSE UNCHANGED <<nextH, issued, hLive>>
    /\ UNCHANGED <<task, cpPc, getAllReply, seedTodo, busVal, inbox, hPc, invoked,
                   emitted, seeded, applied, lateVal>>
    /\ UNCHANGED <<pstreams, pLast, pBase, pPolls, getCalls, setCalls, gp, sp, hKinds,
                   cacheLock, reentered>>
    /\ UNCHANGED <<streamVars, lifeVars, ownVars>>

\* disconnect_property_changed is called with an id returned earlier
HDisconnect ==
    /\ \E id \in issued :
          LET r == disconnect_property_changed(values, id)
          IN /\ values' = r.vals
             /\ callResult' = [op |-> "disconnect", id |-> id, result |-> r.result,
                               tick |-> ~callResult.tick]
             /\ hLive' = {e \in hLive : e.id # id}
    /\ UNCHANGED <<task, cpPc, getAllReply, seedTodo, busVal, inbox, hPc, invoked, nextH,
                   issued, emitted, seeded, applied, lateVal>>
    /\ UNCHANGED <<pstreams, pLast, pBase, pPolls, getCalls, setCalls, gp, sp, hKinds,
                   cacheLock, reentered>>
    /\ UNCHANGED <<streamVars, lifeVars, ownVars>>

HandlersNext ==
    \/ HConnect
    \/ HDisconnect

SpecHandlers == BuiltInit /\ [][HandlersNext]_vars

\* the callbacks registered for a property, as the cache holds them
HandlerSet(vals, k) ==
    IF vals[k].present /\ vals[k].handlers # None
    THEN {vals[k].handlers[1].slots[i].h :
             i \in {j \in DOMAIN vals[k].handlers[1].slots :
                       Occupied(vals[k].handlers[1].slots[j])}}
    ELSE {}

\* a call of the property API returns
ApiStep(op) == callResult' # callResult /\ callResult'.op = op

\* C11: disconnect_property_changed(id) returns true exactly when the handler
\* registered under id is still registered, and then removes that handler and no
\* other; otherwise (a later call with the same id, also after further handlers
\* were registered for the property) it returns false and removes nothing.
C11_DisconnectPropertyChanged ==
    [][ApiStep("disconnect") =>
          LET id == callResult'.id
              mine == {e \in hLive : e.id = id}
          IN /\ callResult'.result = (mine # {})
             /\ \A k \in Props :
                   HandlerSet(values', k) =
                       HandlerSet(values, k) \ {e.h : e \in {m \in mine : m.id.name = k}}
             /\ \A k \in Props : values'[k].value = values[k].value]_vars

\* a second disconnect of an id returned false while a later handler of the same
\* property occupies the slot the id had
C11_Witness ==
    /\ callResult.op = "disconnect"
    /\ callResult.result = FALSE
    /\ \E e \in hLive : /\ e.id.name = callResult.id.name
                        /\ e.id.key.idx = callResult.id.key.idx

\* C14: on a proxy built without caching connect_property_changed returns
\* Unsupported, registers no callback and leaves the cache unchanged.
C14_ConnectUnsupported ==
    [][(ApiStep("connect") /\ ~task) =>
          /\ callResult'.result = "Unsupported"
          /\ callResult'.id = None
          /\ values' = values
          /\ issued' = issued]_vars

\* connect_property_changed has failed with Unsupported
C14_Witness ==
    /\ ~task
    /\ callResult.op = "connect"
    /\ callResult.result = "Unsupported"
    /\ \A k \in Props : ~values[k].present

\* ========================================================================
\* get_property, set_property and PropertyStream
\* ========================================================================
\* the property values of the model are integers (u32); a caller may ask for
\* them as u32 or as String
Types == {"u32", "String"}

\* T::try_from(OwnedValue): Some(v) when the value has the type T
try_from(T, v) == IF T = "u32" THEN Some(v) ELSE None

\* Proxy::cached_property::<T>: Ok(None), Ok(Some(v)) or Err(InvalidReply)
cached_property_typed(vals, name, T) ==
    IF ~vals[name].present \/ vals[name].value = None
    THEN [ok |-> TRUE, value |-> None]
    ELSE LET c == try_from(T, vals[name].value[1])
         IN IF c = None THEN [ok |-> FALSE, value |-> None]
            ELSE [ok |-> TRUE, value |-> c]

\* a get_property that never looks at the cache
get_property_uncached(vals, name, T) == [ret |-> FALSE, result |-> "", value |-> None]

\* Proxy::get_property up to its first await: the value of an active cache is
\* returned (ret), otherwise Properties.Get is called
get_property_cached(vals, name, T) ==
    IF has_cached_properties
    THEN LET c == cached_property_typed(vals, name, T)
         IN IF ~c.ok THEN [ret |-> TRUE, result |-> "InvalidReply", value |-> None]
            ELSE IF c.value # None THEN [ret |-> TRUE, result |-> "Ok", value |-> c.value]
            ELSE [ret |-> FALSE, result |-> "", value |-> None]
    ELSE [ret |-> FALSE, result |-> "", value |-> None]

\* a built proxy: without caching, or with caching and the cache seeded by GetAll
\* or not (GetAll failed)
PropsInit ==
    /\ task \in BOOLEAN
    /\ seeded \in {s \in BOOLEAN : s => task}
    /\ values = IF seeded
                THEN [k \in Props |->
                        [DefaultPropertyValue EXCEPT !.present = TRUE, !.value = Some(1)]]
                ELSE [k \in Props |-> DefaultPropertyValue]
    /\ cpPc = (IF task THEN "done" ELSE "off")
    /\ getAllReply = [ok |-> FALSE, values |-> <<>>]
    /\ seedTodo = {}
    /\ busVal = [k \in Props |-> 1]
    /\ inbox = <<>>
    /\ hPc = "idle"
    /\ invoked = <<>>
    /\ nextH = 0
    /\ issued = {}
    /\ emitted = 0
    /\ applied = [k \in Props |-> NeverMentioned]
    /\ lateVal = [k \in Props |-> NeverMentioned]
    /\ StreamIdle
    /\ LifeIdle
    /\ PropIdle

\* Proxy::properties_proxy: the PropertiesProxy exists since cache activation, or
\* is built at the first call that needs it (cpPc "lazy"); building it can fail
properties_proxy(built) ==
    IF cpPc # "off" THEN [ok |-> TRUE, pc |-> cpPc]
    ELSE IF built THEN [ok |-> TRUE, pc |-> "lazy"]
    ELSE [ok |-> FALSE, pc |-> cpPc]

PropsCacheFrame ==
    UNCHANGED <<task, getAllReply, seedTodo, hPc, invoked, nextH, issued,
                emitted, seeded, applied, lateVal>>

PropsOtherFrame ==
    UNCHANGED <<hLive, hKinds, cacheLock, reentered, streamVars, lifeVars, ownVars>>

\* get_property is called
GpStart ==
    /\ gp.pc = "idle"
    /\ getCalls < MaxGets
    /\ \E name \in Props, T \in Types, built \in BOOLEAN :
          LET r == get_property_cached(values, name, T)
              pp == properties_proxy(built)
          IN IF r.ret
             THEN /\ callResult' = [op |-> "get", name |-> name, type |-> T,
                                    result |-> r.result, value |-> r.value, gets |-> 0,
                                    tick |-> ~callResult.tick]
                  /\ UNCHANGED <<gp, getCalls, cpPc>>
             ELSE IF ~pp.ok
             THEN /\ callResult' = [op |-> "get", name |-> name, type |-> T,
                                    result |-> "Err", value |-> None, gets |-> 0,
                                    tick |-> ~callResult.tick]
                  /\ UNCHANGED <<gp, getCalls, cpPc>>
             ELSE /\ gp' = [pc |-> "get", name |-> name, type |-> T, value |-> None]
                  /\ getCalls' = getCalls + 1
                  /\ cpPc' = pp.pc
                  /\ UNCHANGED callResult
    /\ UNCHANGED <<values, busVal, inbox>>
    /\ UNCHANGED <<pstreams, pLast, pBase, pPolls, setCalls, sp>>
    /\ PropsCacheFrame
    /\ PropsOtherFrame

\* the bus answers Properties.Get with the object's value, or with an error
GpBusAnswer ==
    /\ gp.pc = "get"
    /\ \E ok \in BOOLEAN :
          gp' = [gp EXCEPT !.pc = IF ok THEN "reply" ELSE "error",
                           !.value = IF ok THEN Some(busVal[gp.name]) ELSE None]
    /\ UNCHANGED <<values, busVal, inbox, cpPc>>
    /\ UNCHANGED <<pstreams, pLast, pBase, pPolls, getCalls, setCalls, sp, callResult>>
    /\ PropsCacheFrame
    /\ PropsOtherFrame

\* get_property resumes with the reply: an active cache is filled by
\* set_cached_property, and the value is converted to T
GpFinish ==
    /\ gp.pc \in {"reply", "error"}
    /\ IF gp.pc = "error"
       THEN /\ callResult' = [op |-> "get", name |-> gp.name, type |-> gp.type,
                              result |-> "Err", value |-> None, gets |-> 1,
                              tick |-> ~callResult.tick]
            /\ UNCHANGED values
       ELSE LET c == try_from(gp.type, gp.value[1])
            IN /\ values' = IF has_cached_properties
                            THEN set_cached_property(values, gp.name, gp.value)
                            ELSE values
               /\ callResult' = [op |-> "get", name |-> gp.name, type |-> gp.type,
                                 result |-> IF c = None THEN "InvalidReply" ELSE "Ok",
                                 value |-> c, gets |-> 1, tick |-> ~callResult.tick]
    /\ gp' = NoCall
    /\ UNCHANGED <<busVal, inbox, cpPc>>
    /\ UNCHANGED <<pstreams, pLast, pBase, pPolls, getCalls, setCalls, sp>>
    /\ PropsCacheFrame
    /\ PropsOtherFrame

\* a set_property that stores the value in the cache
set_property_preupdate(vals, name, value) == set_cached_property(vals, name, Some(value))

\* Proxy::set_property: what it does to the cache
set_property(vals, name, value) == vals

\* set_property is called: Properties.Set is sent, unless the PropertiesProxy
\* cannot be built
SpStart ==
    /\ sp.pc = "idle"
    /\ setCalls < MaxSets
    /\ \E name \in Props, value \in Values, built \in BOOLEAN :
          LET pp == properties_proxy(built)
          IN /\ values' = set_property(values, name, value)
             /\ IF pp.ok
                THEN /\ sp' = [pc |-> "set", name |-> name, type |-> "u32",
                               value |-> Some(value)]
                     /\ setCalls' = setCalls + 1
                     /\ cpPc' = pp.pc
                     /\ UNCHANGED callResult
                ELSE /\ callResult' = [op |-> "set", name |-> name, value |-> Some(value),
                                       result |-> "Err", sets |-> 0,
                                       tick |-> ~callResult.tick]
                     /\ UNCHANGED <<sp, setCalls, cpPc>>
    /\ UNCHANGED <<busVal, inbox>>
    /\ UNCHANGED <<pstreams, pLast, pBase, pPolls, getCalls, gp>>
    /\ PropsCacheFrame
    /\ PropsOtherFrame

\* the object takes the value and emits PropertiesChanged, or answers with an error
SpBusApply ==
    /\ sp.pc = "set"
    /\ \E ok \in BOOLEAN :
          IF ok
          THEN /\ Len(inbox) < MaxInbox
               /\ busVal' = [busVal EXCEPT ![sp.name] = sp.value[1]]
               /\ inbox' = IF task
                           THEN Append(inbox, [iface |-> ProxyInterface,
                                               changed |-> (sp.name :> sp.value[1]),
                                               invalidated |-> <<>>])
                           ELSE inbox
               /\ sp' = [sp EXCEPT !.pc = "reply"]
          ELSE /\ sp' = [sp EXCEPT !.pc = "error"]
               /\ UNCHANGED <<busVal, inbox>>
    /\ UNCHANGED <<values, cpPc>>
    /\ UNCHANGED <<pstreams, pLast, pBase, pPolls, getCalls, setCalls, gp, callResult>>
    /\ PropsCacheFrame
    /\ PropsOtherFrame

\* set_property returns the reply
SpReturn ==
    /\ sp.pc \in {"reply", "error"}
    /\ callResult' = [op |-> "set", name |-> sp.name, value |-> sp.value,
                      result |-> IF sp.pc = "reply" THEN "Ok" ELSE "Err", sets |-> 1,
                      tick |-> ~callResult.tick]
    /\ sp' = NoCall
    /\ UNCHANGED <<values, busVal, inbox, cpPc>>
    /\ UNCHANGED <<pstreams, pLast, pBase, pPolls, getCalls, setCalls, gp>>
    /\ PropsCacheFrame
    /\ PropsOtherFrame

\* Proxy::receive_property_stream: the entry is created if missing and the stream
\* listens on its event
ReceivePropertyStream ==
    /\ Len(pstreams) < MaxPStreams
    /\ \E name \in Props, T \in Types :
          LET ins == EntryOrInsert(values, name)
              s == Len(pstreams) + 1
          IN /\ values' = [ins EXCEPT ![name].event = @ \cup {s}]
             /\ pstreams' = Append(pstreams, [name |-> name, type |-> T])
             /\ pLast' = Append(pLast, None)
             /\ pBase' = Append(pBase, ins[name].value)
             /\ pPolls' = Append(pPolls, 0)
    /\ UNCHANGED <<busVal, inbox, cpPc>>
    /\ UNCHANGED <<getCalls, setCalls, gp, sp, callResult>>
    /\ PropsCacheFrame
    /\ PropsOtherFrame

\* a poll_next that does not listen again
PropertyStreamPollOnce(vals, s, name, T) ==
    [vals |-> vals,
     item |-> IF vals[name].value = None THEN None
              ELSE try_from(T, vals[name].value[1])]

\* PropertyStream::poll_next once its listener is ready: under the lock the
\* stream listens again and reads the value
PropertyStreamPoll(vals, s, name, T) ==
    [vals |-> [vals EXCEPT ![name].event = @ \cup {s}],
     item |-> IF vals[name].value = None THEN None
              ELSE try_from(T, vals[name].value[1])]

\* PropertyStream::poll_next returns Poll::Ready(Some(item))
PsPoll(s) ==
    /\ s \in DOMAIN pstreams
    /\ s \notin values[pstreams[s].name].event      \* ready!(.. m.event ..)
    /\ LET r == PropertyStreamPoll(values, s, pstreams[s].name, pstreams[s].type)
       IN /\ values' = r.vals
          /\ pLast' = [pLast EXCEPT ![s] = Some(r.item)]
          /\ pBase' = [pBase EXCEPT ![s] = values[pstreams[s].name].value]
          /\ pPolls' = [pPolls EXCEPT ![s] = @ + 1]
    /\ UNCHANGED <<busVal, inbox, cpPc>>
    /\ UNCHANGED <<pstreams, getCalls, setCalls, gp, sp, callResult>>
    /\ PropsCacheFrame
    /\ PropsOtherFrame

\* PropertiesChanged messages about at most one property
OnePropertyMsgs ==
    { [iface |-> ProxyInterface, changed |-> (k :> v), invalidated |-> inv] :
          k \in Props, v \in Values, inv \in {<<>>, <<"a">>} }
    \cup { [iface |-> ProxyInterface, changed |-> <<>>, invalidated |-> <<k>>] :
               k \in Props }
    \cup { [iface |-> OtherInterface, changed |-> (k :> MaxVal), invalidated |-> <<>>] :
               k \in {"a"} }

\* the object changes or invalidates one property and emits PropertiesChanged
ObjectEmit ==
    /\ emitted < MaxEmit
    /\ Len(inbox) < MaxInbox
    /\ \E msg \in OnePropertyMsgs :
          /\ busVal' = IF msg.iface = ProxyInterface
                       THEN [k \in Props |-> IF k \in DOMAIN msg.changed
                                             THEN msg.changed[k] ELSE busVal[k]]
                       ELSE busVal
          /\ inbox' = IF task THEN Append(inbox, msg) ELSE inbox
    /\ emitted' = emitted + 1
    /\ UNCHANGED <<values, task, cpPc, getAllReply, seedTodo, hPc, invoked, nextH,
                   issued, seeded, applied, lateVal>>
    /\ UNCHANGED <<streamVars, lifeVars, propVars, ownVars>>

\* get_property and set_property on a proxy whose object changes
PropsNext ==
    \/ ObjectEmit
    \/ Dispatch
    \/ CallbacksComplete
    \/ GpStart
    \/ GpBusAnswer
    \/ GpFinish
    \/ SpStart
    \/ SpBusApply
    \/ SpReturn

SpecProps == PropsInit /\ [][PropsNext]_vars

\* PropertyStreams on a proxy whose object changes
PStreamNext ==
    \/ ObjectEmit
    \/ Dispatch
    \/ CallbacksComplete
    \/ ReceivePropertyStream
    \/ \E s \in 1..MaxPStreams : PsPoll(s)

SpecPStream == PropsInit /\ [][PStreamNext]_vars

\* every PropertyStream is polled again and again
SpecPStreamFair == SpecPStream /\ \A s \in 1..MaxPStreams : WF_vars(PsPoll(s))

\* PropertyStreams on a proxy whose object changes and whose cache get_property
\* fills; every PropertyStream is polled again and again
PStreamFillNext ==
    \/ PStreamNext
    \/ GpStart
    \/ GpBusAnswer
    \/ GpFinish

\* a proxy with an active cache that GetAll did not seed
FillInit == PropsInit /\ task = TRUE /\ seeded = FALSE

SpecPStreamFill ==
    /\ FillInit
    /\ [][PStreamFillNext]_vars
    /\ \A s \in 1..MaxPStreams : WF_vars(PsPoll(s))

\* ------------------------------------------------------------------------
\* Claims about get_property, set_property and PropertyStream
\* ------------------------------------------------------------------------
\* get_property is entered
GpStartStep == gp.pc = "idle" /\ (gp'.pc = "get" \/ ApiStep("get"))

\* get_property resumes with the reply to Properties.Get
GpFinishStep == gp.pc \in {"reply", "error"} /\ gp'.pc = "idle"

\* C13: get_property on an active cache that holds a value returns it (converted
\* to T, InvalidReply when it is no T) without a Properties.Get call; on an active
\* cache without a value it issues exactly one Properties.Get and stores the value
\* of the reply in the cache; without an active cache it issues Properties.Get
\* (unless the PropertiesProxy cannot be built) and leaves the cache unchanged.
C13_GetProperty ==
    [][/\ (GpStartStep /\ task) =>
             \A k \in Props :
                (gp'.name = k \/ (ApiStep("get") /\ callResult'.name = k)) =>
                   IF cached_property(k) # None
                   THEN /\ ApiStep("get")
                        /\ callResult'.gets = 0
                        /\ getCalls' = getCalls
                        /\ callResult'.value = try_from(callResult'.type, cached_property(k)[1])
                        /\ callResult'.result =
                               (IF callResult'.value = None THEN "InvalidReply" ELSE "Ok")
                        /\ values' = values
                   ELSE /\ gp'.pc = "get"
                        /\ getCalls' = getCalls + 1
                        /\ values' = values
       /\ (GpStartStep /\ ~task) =>
             /\ values' = values
             /\ \/ gp'.pc = "get" /\ getCalls' = getCalls + 1
                \/ /\ cpPc = "off"
                   /\ callResult'.result = "Err"
                   /\ callResult'.gets = 0
                   /\ getCalls' = getCalls
       /\ GpFinishStep =>
             /\ getCalls' = getCalls
             /\ callResult'.gets = 1
             /\ callResult'.name = gp.name
             /\ (task /\ gp.pc = "reply") =>
                    /\ values'[gp.name].value = gp.value
                    /\ \A k \in Props \ {gp.name} : values'[k] = values[k]
             /\ (~task \/ gp.pc = "error") => values' = values
             /\ gp.pc = "reply" => callResult'.value = try_from(gp.type, gp.value[1])
       /\ gp.pc \in {"get", "reply", "error"} => getCalls' = getCalls]_vars

\* get_property on an active cache without a value for the property has called
\* Properties.Get once and the cache holds the value returned
C13_Witness ==
    /\ task
    /\ callResult.op = "get"
    /\ callResult.result = "Ok"
    /\ callResult.gets = 1
    /\ getCalls = 1
    /\ cached_property(callResult.name) = callResult.value
    /\ applied[callResult.name].kind = "invalidated"

\* a step of set_property: the call is made, or it returns
SetPropertyStep == (sp.pc = "idle" /\ sp'.pc = "set") \/ ApiStep("set")

\* C18: set_property issues one Properties.Set and no step of it changes the
\* cache: cached_property returns after the call what it returned before it unless
\* a PropertiesChanged was dispatched.
C18_SetPropertyLeavesCache ==
    [][/\ SetPropertyStep => values' = values
       /\ (sp.pc = "idle" /\ sp'.pc = "set") => setCalls' = setCalls + 1
       /\ ApiStep("set") => (callResult'.result = "Ok" => callResult'.sets = 1)
       /\ sp.pc # "idle" => setCalls' = setCalls]_vars

\* set_property has returned Ok, the object has the new value and the cache still
\* has the old one
C18_Witness ==
    /\ callResult.op = "set"
    /\ callResult.result = "Ok"
    /\ setCalls = 1
    /\ seeded
    /\ busVal[callResult.name] = callResult.value[1]
    /\ cached_property(callResult.name) # None
    /\ cached_property(callResult.name) # callResult.value

\* no get_property or set_property call is running and every PropertiesChanged
\* emitted has been dispatched with its callbacks completed
PropsQuiescent ==
    /\ gp.pc = "idle"
    /\ sp.pc = "idle"
    /\ inbox = <<>>
    /\ hPc = "idle"

\* C28: once get_property and the dispatch of every PropertiesChanged have
\* completed, a value held by an active cache is the value the object has (the
\* one the bus produced last): the cache fill of get_property has not replaced a
\* value stored by a later PropertiesChanged.
C28_GetFillNeverStale ==
    (task /\ PropsQuiescent) =>
        \A k \in Props :
            cached_property(k) # None => cached_property(k) = Some(busVal[k])

\* the PropertyStreams created for property k
StreamsOf(k) == {s \in DOMAIN pstreams : pstreams[s].name = k}

\* poll_next of PropertyStream s returns an item
PsPollStep(s) == s \in DOMAIN pstreams /\ pPolls'[s] # pPolls[s]

\* the message being dispatched invalidates k and does not change it
InvalidatesOnly(k) ==
    /\ inbox # <<>>
    /\ Head(inbox).iface = ProxyInterface
    /\ Invalidates(Head(inbox), k)
    /\ k \notin DOMAIN Head(inbox).changed

\* PropertyStream s was woken by an invalidation and the cache still holds no value
WokenByInvalidation(s) ==
    /\ s \in DOMAIN pstreams
    /\ applied[pstreams[s].name].kind = "invalidated"
    /\ cached_property(pstreams[s].name) = None
    /\ s \notin values[pstreams[s].name].event

\* PropertyStream s has yielded None for the empty cache and listens again
YieldedNone(s) ==
    /\ s \in DOMAIN pstreams
    /\ pLast[s] = Some(None)
    /\ pBase[s] = None
    /\ s \in values[pstreams[s].name].event

\* C15: when a property k cached as Some(v) is invalidated (in `invalidated`, not
\* in `changed`) by a dispatched PropertiesChanged, cached_property(k) is None
\* afterwards and every PropertyStream of k is woken; a woken stream that is
\* polled while the cache holds no value yields None, and it is polled eventually
\* unless a later message gives the property a value first.
C15_InvalidationWakesStreams ==
    /\ [][\A k \in Props :
             (DispatchStep /\ InvalidatesOnly(k) /\ cached_property(k) # None) =>
                /\ values'[k].value = None
                /\ \A s \in StreamsOf(k) : s \notin values'[k].event]_vars
    /\ [][\A s \in 1..MaxPStreams :
             (PsPollStep(s) /\ cached_property(pstreams[s].name) = None) =>
                pLast'[s] = Some(None)]_vars
    /\ \A s \in 1..MaxPStreams :
          WokenByInvalidation(s) ~>
              (YieldedNone(s) \/ (s \in DOMAIN pstreams /\ cached_property(pstreams[s].name) # None))

\* two PropertyStreams of one property cached as Some(v) have both yielded None
\* after its invalidation
C15_Witness ==
    /\ seeded
    /\ Len(pstreams) = 2
    /\ pstreams[1].name = pstreams[2].name
    /\ applied[pstreams[1].name].kind = "invalidated"
    /\ YieldedNone(1)
    /\ YieldedNone(2)
    /\ pPolls[1] = 1
    /\ pPolls[2] = 1

\* the item a poll of PropertyStream s yields for the value the cache holds now
ItemNow(s) ==
    IF cached_property(pstreams[s].name) = None THEN None
    ELSE try_from(pstreams[s].type, cached_property(pstreams[s].name)[1])

Stale(s) == s \in DOMAIN pstreams /\ values[pstreams[s].name].value # pBase[s]

\* C16: after any change of the cached value of a property, whatever operation
\* made it, every polled PropertyStream of the property eventually yields the
\* value the cache then holds.
C16_StreamYieldsEveryChange ==
    \A s \in 1..MaxPStreams : Stale(s) ~> ~Stale(s)

\* ========================================================================
\* Callbacks that re-enter the proxy
\* ========================================================================
\* the cache operations a property-change callback may call on its proxy
ReentrantOps == {"cached_property", "connect_property_changed",
                 "disconnect_property_changed", "receive_property_stream"}

\* a callback calls the proxy either in the closure body, which update_cache runs
\* when it pushes `handler(arg)`, or in the future the closure returns
CallbackKinds == [when : {"closure", "future"}, op : ReentrantOps]

\* a guard that is still held while the collected futures are awaited
GuardKeptAcrossAwait == "held"

\* the cache mutex once update_cache has returned the collected futures: the
\* MutexGuard `values` is a local of update_cache and is dropped at its return
GuardAtReturn == "free"

\* std::sync::Mutex::lock on a mutex the calling thread holds: it never returns,
\* the thread deadlocks or panics (and the unwinding poisons the mutex)
RelockOutcomes == {"stuck", "poisoned"}

ReenterFrame ==
    UNCHANGED <<task, cpPc, getAllReply, seedTodo, busVal, emitted, seeded, lateVal,
                pLast, pBase, pPolls, getCalls, setCalls, gp, sp, callResult,
                streamVars, lifeVars, ownVars>>

\* connect_property_changed registers a callback of some kind
RConnect ==
    /\ cacheLock = "free"
    /\ nextH < MaxHandlers
    /\ \E name \in Props, kind \in CallbackKinds :
          LET r == connect_property_changed(values, name, nextH + 1)
          IN /\ values' = r.vals
             /\ nextH' = nextH + 1
             /\ issued' = issued \cup {r.id[1]}
             /\ hLive' = hLive \cup {[id |-> r.id[1], h |-> nextH + 1]}
             /\ hKinds' = Append(hKinds, kind)
    /\ UNCHANGED <<inbox, hPc, invoked, applied, pstreams, cacheLock, reentered>>
    /\ ReenterFrame

\* the PropertiesChanged closure runs update_cache: the cache is locked, the two
\* loops run and call every handler closure; a closure that calls the proxy locks
\* the mutex its own thread holds
RUpdateCache ==
    /\ hPc = "idle"
    /\ cacheLock = "free"
    /\ inbox # <<>>
    /\ LET msg == Head(inbox)
       IN IF matches(msg.iface)
          THEN \E order \in Orders(DOMAIN msg.changed), out \in RelockOutcomes :
                  LET r == update_cache(values, msg.changed, msg.invalidated, order)
                      relocks == \E i \in DOMAIN r.futures :
                                    hKinds[r.futures[i].h].when = "closure"
                  IN /\ values' = r.vals
                     /\ invoked' = r.futures
                     /\ applied' = [k \in Props |-> Mention(msg, k, applied[k])]
                     /\ hPc' = IF relocks THEN "dead" ELSE "locked"
                     /\ cacheLock' = IF relocks THEN out ELSE "held"
          ELSE UNCHANGED <<values, invoked, applied, hPc, cacheLock>>
    /\ inbox' = Tail(inbox)
    /\ reentered' = {}
    /\ UNCHANGED <<nextH, issued, hLive, hKinds, pstreams>>
    /\ ReenterFrame

\* update_cache returns `futures.collect()` and its guard is dropped
RReturn ==
    /\ hPc = "locked"
    /\ hPc' = "awaiting"
    /\ cacheLock' = GuardAtReturn
    /\ UNCHANGED <<values, inbox, invoked, applied, nextH, issued, hLive, hKinds,
                   pstreams, reentered>>
    /\ ReenterFrame

\* what the re-entrant call of callback h of property `name` does to the proxy
Reenter(h, name) ==
    LET op == hKinds[h].op
    IN IF op = "connect_property_changed"
       THEN /\ nextH < MaxRegs
            /\ LET r == connect_property_changed(values, name, nextH + 1)
               IN /\ values' = r.vals
                  /\ nextH' = nextH + 1
                  /\ issued' = issued \cup {r.id[1]}
                  /\ hLive' = hLive \cup {[id |-> r.id[1], h |-> nextH + 1]}
                  /\ hKinds' = Append(hKinds, [when |-> "future",
                                               op |-> "cached_property"])
            /\ UNCHANGED pstreams
       ELSE IF op = "disconnect_property_changed"
       THEN /\ values' = IF \E e \in hLive : e.h = h
                         THEN disconnect_property_changed(
                                  values, (CHOOSE e \in hLive : e.h = h).id).vals
                         ELSE values
            /\ hLive' = {e \in hLive : e.h # h}
            /\ UNCHANGED <<nextH, issued, hKinds, pstreams>>
       ELSE IF op = "receive_property_stream"
       THEN /\ Len(pstreams) < MaxPStreams
            /\ values' = [values EXCEPT ![name].event = @ \cup {Len(pstreams) + 1}]
            /\ pstreams' = Append(pstreams, [name |-> name, type |-> "u32"])
            /\ UNCHANGED <<nextH, issued, hLive, hKinds>>
       ELSE UNCHANGED <<values, nextH, issued, hLive, hKinds, pstreams>>

\* the i-th collected future is polled to completion: its callback calls the
\* proxy, which locks the cache
RFuturePoll(i) ==
    /\ hPc = "awaiting"
    /\ i \in DOMAIN invoked
    /\ i \notin reentered
    /\ IF cacheLock = "free"
       THEN /\ Reenter(invoked[i].h, invoked[i].name)
            /\ reentered' = reentered \cup {i}
            /\ UNCHANGED <<hPc, cacheLock>>
       ELSE /\ \E out \in RelockOutcomes : cacheLock' = out
            /\ hPc' = "dead"
            /\ UNCHANGED <<values, nextH, issued, hLive, hKinds, pstreams, reentered>>
    /\ UNCHANGED <<inbox, invoked, applied>>
    /\ ReenterFrame

\* an await that ends while collected futures are still running
RCompleteEarly ==
    /\ hPc = "awaiting"
    /\ hPc' = "idle"
    /\ invoked' = <<>>
    /\ reentered' = {}
    /\ UNCHANGED <<values, inbox, applied, nextH, issued, hLive, hKinds, pstreams,
                   cacheLock>>
    /\ ReenterFrame

\* every collected future has finished: `update_cache(..).await` ends
RComplete ==
    /\ hPc = "awaiting"
    /\ reentered = DOMAIN invoked
    /\ hPc' = "idle"
    /\ invoked' = <<>>
    /\ reentered' = {}
    /\ UNCHANGED <<values, inbox, applied, nextH, issued, hLive, hKinds, pstreams,
                   cacheLock>>
    /\ ReenterFrame

ReenterNext ==
    \/ RConnect
    \/ ObjectEmit
    \/ RUpdateCache
    \/ RReturn
    \/ \E i \in 1..MaxRegs : RFuturePoll(i)
    \/ RComplete

\* a proxy built with an active cache
ReenterInit == BuiltInit /\ task = TRUE

SpecReenter == ReenterInit /\ [][ReenterNext]_vars

\* a registered callback calls the proxy from its closure body
SomeClosureReenters == \E h \in DOMAIN hKinds : hKinds[h].when = "closure"

\* a collected future completes its call into the proxy
FutureStep == reentered' # reentered /\ reentered' # {}

TakeStep == inbox # <<>> /\ inbox' = Tail(inbox)

\* C23: a PropertiesChanged whose interface is not the proxy's interface has no
\* effect: the step that takes it leaves every cache entry as it was (value,
\* callbacks and event listeners), takes no lock and invokes no callback.
C23_OtherInterfaceIgnored ==
    [][(TakeStep /\ Head(inbox).iface # ProxyInterface) =>
          /\ values' = values
          /\ invoked' = <<>>
          /\ hPc' = "idle"
          /\ cacheLock' = cacheLock
          /\ applied' = applied]_vars

\* a proxy message about "a" and a message of another interface have been
\* dispatched; the callback of "a" was invoked for the first only and the stream it
\* created on "a" has not been notified
C23_Witness ==
    /\ emitted = 2
    /\ inbox = <<>>
    /\ hPc = "idle"
    /\ applied["a"].kind = "changed"
    /\ applied["b"].kind = "never"
    /\ values["a"].handlers # None
    /\ Len(pstreams) = 1
    /\ pstreams[1].name = "a"
    /\ 1 \in values["a"].event
    /\ cached_property("a") = Some(1)

OrderNext ==
    \/ HConnect
    \/ HDisconnect
    \/ ObjectEmit
    \/ Dispatch
    \/ CallbacksComplete

SpecOrder == BuiltInit /\ [][OrderNext]_vars

\* two calls of one run of `for handler in handlers.values_mut()`: the same
\* property and the same argument, i pushed before j
SameRun(futs, i, j) ==
    /\ i < j
    /\ futs[i].name = futs[j].name
    /\ futs[i].arg = futs[j].arg

\* the key under which the connected callback h is held
KeyOf(h) == (CHOOSE e \in hLive : e.h = h).id.key

\* C24 as stated: within one property the callbacks are invoked in the order of
\* their registration (callbacks are numbered as they are registered), whatever
\* connect_property_changed and disconnect_property_changed calls came before.
C24_RegistrationOrder ==
    \A i, j \in DOMAIN invoked :
        SameRun(invoked, i, j) => invoked[i].h < invoked[j].h

\* C24: within one property the callbacks are invoked in the order of their slots
\* in the property's slot map. That is the order of registration among callbacks
\* whose slot was never used before; a callback registered after a removal takes
\* the freed slot and with it the removed callback's place.
C24_SlotOrder ==
    [][(hPc = "idle" /\ hPc' = "awaiting") =>
          \A i, j \in DOMAIN invoked' :
              SameRun(invoked', i, j) =>
                 LET ki == KeyOf(invoked'[i].h)
                     kj == KeyOf(invoked'[j].h)
                 IN /\ ki.idx < kj.idx
                    /\ (ki.version = 1 /\ kj.version = 1) =>
                          invoked'[i].h < invoked'[j].h]_vars

\* the third callback registered was connected after the first was disconnected
\* and has been invoked before the second
C24_Witness ==
    /\ hPc = "awaiting"
    /\ nextH = 3
    /\ \E i, j \in DOMAIN invoked :
          /\ SameRun(invoked, i, j)
          /\ invoked[i].h = 3
          /\ invoked[j].h = 2

\* ========================================================================
\* disconnect_signal when the connection reports an error
\* ========================================================================
\* disconnect_signal(id) returns the error of remove_signal_handler
DisconnectFails(id) ==
    /\ DisconnectStep(id)
    /\ discResults'[id][Len(discResults'[id])] = "err"

\* C29 as stated: when disconnect_signal(id) fails the proxy's state is as before
\* the call: the id is still in sig_handlers, and once the proxy has been dropped
\* the removal of the handler has been enqueued.
C29_FailedDisconnectKeepsId ==
    /\ [][\A id \in HandlerIds :
             DisconnectFails(id) =>
                (sig_handlers' = sig_handlers /\ InList(sig_handlers', id))]_vars
    /\ [](\A id \in HandlerIds :
             (proxyDropped /\ discResults[id] # <<>> /\ discResults[id][1] = "err")
                => InList(queuedRemovals, id))

\* C29: when disconnect_signal(id) fails the id has been taken out of sig_handlers
\* all the same (it was there before the call, every other id is kept), and the
\* drop of the proxy does not enqueue the removal of that handler.
C29_FailedDisconnectForgetsId ==
    /\ [][\A id \in HandlerIds :
             DisconnectFails(id) =>
                /\ InList(sig_handlers, id)
                /\ ~InList(sig_handlers', id)
                /\ \A other \in HandlerIds \ {id} :
                      InList(sig_handlers', other) = InList(sig_handlers, other)]_vars
    /\ [](\A id \in HandlerIds :
             (discResults[id] # <<>> /\ discResults[id][1] = "err")
                => (~InList(sig_handlers, id) /\ ~InList(queuedRemovals, id)))

\* the proxy was dropped after a failed disconnect_signal: the removal of another
\* handler was enqueued, that of the handler whose disconnect failed was not
C29_Witness ==
    /\ proxyDropped
    /\ queuedRemovals # <<>>
    /\ \E id \in 1..nextId :
          /\ discResults[id] = <<"err">>
          /\ ~InList(queuedRemovals, id)

====
